---- MODULE Spec2Model ----
(***************************************************************************)
(* A model of ctfcli's Challenge (src/ctfcli/core/challenge.py): the local *)
(* challenge document, the remote scoring platform it is reconciled with,  *)
(* and the four operations create, sync, mirror and verify.                *)
(*                                                                         *)
(* Python values are represented as follows.                               *)
(*   dict            a function whose DOMAIN is the set of its keys        *)
(*   list            a sequence                                            *)
(*   str             a string; a text that is stripped / rewritten by the  *)
(*                   code is a sequence of characters                      *)
(*   None            NoneStr where a str is expected, NoId where an id is  *)
(*                   expected, NoSha for a checksum, RefNone for a         *)
(*                   requirement / next reference                          *)
(*   str | dict      flags and hints: [s |-> ..] is the bare string,       *)
(*                   any other record is the structured form               *)
(*   str | int       references: [name |-> ..] or [id |-> ..]              *)
(***************************************************************************)
EXTENDS Integers, Sequences, FiniteSets, TLC

VARIABLES doc, cid, rem, disk, hist

vars == <<doc, cid, rem, disk, hist>>

(***************************************************************************)
(* Python dict and list helpers                                            *)
(***************************************************************************)
Has(d, k) == k \in DOMAIN d

Get(d, k, dflt) == IF k \in DOMAIN d THEN d[k] ELSE dflt

Put(d, k, v) == [x \in (DOMAIN d) \cup {k} |-> IF x = k THEN v ELSE d[x]]

\* {**a, **b}: the keys of b win
Merge(a, b) == [x \in (DOMAIN a) \cup (DOMAIN b) |-> IF x \in DOMAIN b THEN b[x] ELSE a[x]]

EmptyDict == <<>>

Range(s) == {s[i] : i \in 1..Len(s)}

Last(s) == s[Len(s)]

RECURSIVE SortInts(_)
\* list.sort() on a list of ints: ascending, duplicates kept
SortInts(s) ==
    IF s = <<>> THEN <<>>
    ELSE LET m == CHOOSE x \in Range(s) : \A y \in Range(s) : x <= y
             i == CHOOSE j \in 1..Len(s) : s[j] = m
         IN  <<m>> \o SortInts(SubSeq(s, 1, i - 1) \o SubSeq(s, i + 1, Len(s)))

RECURSIVE RemoveFirst(_, _)
\* list.remove(x): drops the first occurrence only
RemoveFirst(s, x) ==
    IF s = <<>> THEN <<>>
    ELSE IF Head(s) = x THEN Tail(s)
    ELSE <<Head(s)>> \o RemoveFirst(Tail(s), x)

\* The values standing for Python's None
NoneStr == "None"
RefNone == [none |-> TRUE]
NoSha == <<>>
NoId == 0

(***************************************************************************)
(* Text normalisation: str.strip(), replace("\r\n", "\n"), replace("\t","")*)
(***************************************************************************)
Whitespace == {"SP", "TAB", "CR", "LF"}

RECURSIVE LStrip(_)
LStrip(s) == IF s # <<>> /\ Head(s) \in Whitespace THEN LStrip(Tail(s)) ELSE s

RECURSIVE RStrip(_)
RStrip(s) == IF s # <<>> /\ Last(s) \in Whitespace
             THEN RStrip(SubSeq(s, 1, Len(s) - 1)) ELSE s

Strip(s) == RStrip(LStrip(s))

RECURSIVE ReplaceCRLF(_)
ReplaceCRLF(s) ==
    IF s = <<>> THEN <<>>
    ELSE IF Len(s) >= 2 /\ s[1] = "CR" /\ s[2] = "LF"
         THEN <<"LF">> \o ReplaceCRLF(SubSeq(s, 3, Len(s)))
         ELSE <<Head(s)>> \o ReplaceCRLF(Tail(s))

RemoveTabs(s) == SelectSeq(s, LAMBDA ch : ch # "TAB")

(***************************************************************************)
(* The environment threaded through one operation.                         *)
(*   doc, cid   the Challenge object: its dict and self.challenge_id       *)
(*   rem        the remote service's state                                 *)
(*   disk       the challenge directory: path -> content                   *)
(*   log        the remote calls issued so far, in order                   *)
(*   failAt     the position in log of the call that gets a non-success    *)
(*              response (0: none)                                         *)
(*   failed/err an exception has been raised, and which                    *)
(*   warn       the warnings printed                                       *)
(*   open       the file handles open                                      *)
(*   done/ret   the operation has returned, and its result (verify)        *)
(***************************************************************************)
NewEnv(d, c, r, dk, f) ==
    [doc |-> d, cid |-> c, rem |-> r, disk |-> dk, log |-> <<>>, failAt |-> f,
     failed |-> FALSE, err |-> "", warn |-> <<>>, open |-> 0, done |-> FALSE, ret |-> TRUE]

Raise(e, what) == [e EXCEPT !.failed = TRUE, !.err = what]

Return(e, v) == [e EXCEPT !.done = TRUE, !.ret = v]

Warn(e, what) == [e EXCEPT !.warn = Append(@, what)]

\* The call about to be issued is the one the remote answers with an error
Fails(e) == e.failAt = Len(e.log) + 1

Call(m, r, id, body, ok) == [m |-> m, r |-> r, id |-> id, body |-> body, ok |-> ok]

\* Mut without raise_for_status(): an error response is logged and the operation goes on
MutUnchecked(e, m, r, id, body, r2) ==
    IF e.failed THEN e
    ELSE IF Fails(e) THEN [e EXCEPT !.log = Append(@, Call(m, r, id, body, FALSE))]
    ELSE [e EXCEPT !.log = Append(@, Call(m, r, id, body, TRUE)), !.rem = r2]

\* A mutating call followed by raise_for_status(): on success the remote becomes r2
Mut(e, m, r, id, body, r2) ==
    IF e.failed THEN e
    ELSE IF Fails(e)
         THEN Raise([e EXCEPT !.log = Append(@, Call(m, r, id, body, FALSE))], "HTTPError")
         ELSE [e EXCEPT !.log = Append(@, Call(m, r, id, body, TRUE)), !.rem = r2]

\* A GET followed by raise_for_status()
Read(e, r, id) ==
    IF e.failed THEN e
    ELSE IF Fails(e)
         THEN Raise([e EXCEPT !.log = Append(@, Call("GET", r, id, EmptyDict, FALSE))], "HTTPError")
         ELSE [e EXCEPT !.log = Append(@, Call("GET", r, id, EmptyDict, TRUE))]

\* A GET read as r.json()["data"] with no status check: an error response has no data
ReadData(e, r, id) ==
    IF e.failed THEN e
    ELSE IF Fails(e)
         THEN Raise([e EXCEPT !.log = Append(@, Call("GET", r, id, EmptyDict, FALSE))], "KeyError")
         ELSE [e EXCEPT !.log = Append(@, Call("GET", r, id, EmptyDict, TRUE))]

\* A GET whose failure the caller handles itself
ReadNoCheck(e, r, id) ==
    IF e.failed THEN e
    ELSE [e EXCEPT !.log = Append(@, Call("GET", r, id, EmptyDict, ~Fails(e)))]

(***************************************************************************)
(* The remote service (CTFd), seen through the calls the code issues:      *)
(* challenges (list / get / create / patch) and the sub-collections        *)
(* flags, tags, topics, hints, files (list / create / delete).             *)
(***************************************************************************)
SubResources == {"flags", "tags", "topics", "hints", "files"}

\* GET /api/v1/challenges/{id}: does it exist
RemoteHas(r, id) == \E i \in 1..Len(r.chals) : r.chals[i].id = id

RemoteIndex(r, id) == CHOOSE i \in 1..Len(r.chals) : r.chals[i].id = id

\* The download URL of a remote file: /files/<dir>/<name>?token=<token>
FileUrl(f) == [parts |-> <<"files", f.dir, f.name>>, token |-> "t"]

\* GET /api/v1/challenges/{id}?view=admin -> data
RemoteChallenge(r, id) ==
    Put(r.chals[RemoteIndex(r, id)], "files",
        LET fs == SelectSeq(r.files, LAMBDA f : f.challenge_id = id)
        IN  [i \in 1..Len(fs) |-> FileUrl(fs[i])])

\* GET /api/v1/challenges/{id}/<res> -> data
RemoteSub(r, res, id) == SelectSeq(r[res], LAMBDA x : x.challenge_id = id)

\* PATCH /api/v1/challenges/{id} with a JSON body
RemotePatch(r, id, body) ==
    IF RemoteHas(r, id)
    THEN [r EXCEPT !.chals[RemoteIndex(r, id)] = Merge(@, body)]
    ELSE r

\* POST /api/v1/challenges with a JSON body: the new challenge gets the next id, and
\* the remote's defaults for what the body leaves out
RemoteCreate(r, body) ==
    [r EXCEPT !.chals = Append(@, Merge([id |-> r.nextId, next_id |-> NoId,
                                         requirements |-> EmptyDict, max_attempts |-> 0,
                                         connection_info |-> NoneStr], body)),
              !.nextId = @ + 1]

\* POST /api/v1/<res>: the new entry gets the next id
RemoteAdd(r, res, entry) ==
    [r EXCEPT ![res] = Append(@, Put(entry, "id", r.nextId)), !.nextId = @ + 1]

\* DELETE /api/v1/<res>/{id}
RemoteDelete(r, res, id) == [r EXCEPT ![res] = SelectSeq(@, LAMBDA x : x.id # id)]

(***************************************************************************)
(* Challenge.load_installed_challenges, _load_challenge_id                 *)
(***************************************************************************)
\* load_installed_challenges(): [] when the call fails or there is no data
Listing(e) == IF Fails(e) THEN <<>> ELSE e.rem.chals

ListCall(e) == ReadNoCheck(e, "challenges", 0)

\* The id of the first challenge of the listing with this name (0: none)
FirstByName(l, name) ==
    IF \E i \in 1..Len(l) : l[i].name = name
    THEN l[CHOOSE i \in 1..Len(l) : l[i].name = name /\ \A j \in 1..(i - 1) : l[j].name # name].id
    ELSE NoId

_load_challenge_id(e) ==
    IF e.failed THEN e
    ELSE LET l  == Listing(e)
             e1 == ListCall(e)
             id == FirstByName(l, e.doc["name"])
         IN  IF l = <<>> THEN Raise(e1, "RemoteChallengeNotFound")
             ELSE IF ~Has(e.doc, "name") THEN Raise(e1, "KeyError")
             ELSE LET e2 == IF id # NoId THEN [e1 EXCEPT !.cid = id] ELSE e1
                  IN  IF e2.cid = NoId THEN Raise(e2, "RemoteChallengeNotFound") ELSE e2

\* load_installed_challenge(id): raises when the challenge cannot be loaded
LoadInstalledCall(e, id) ==
    IF e.failed THEN e
    ELSE LET e1 == ReadNoCheck(e, "challenges", id)
         IN  IF Fails(e) \/ ~RemoteHas(e.rem, id)
             THEN Raise(e1, "RemoteChallengeNotFound") ELSE e1

(***************************************************************************)
(* Challenge._get_initial_challenge_payload                                *)
(***************************************************************************)
\* PayloadState that sends the state of the document
PayloadStateLocal(d) == Get(d, "state", "visible")

\* "state": "hidden": hide the challenge for the duration of the sync / creation
PayloadState(d) == "hidden"

_get_initial_challenge_payload(d, ignore) ==
    LET p0 == [name        |-> d["name"],
               category    |-> Get(d, "category", ""),
               description |-> Get(d, "description", <<>>),
               attribution |-> Get(d, "attribution", <<>>),
               type        |-> Get(d, "type", "standard"),
               state       |-> PayloadState(d)]
        p1 == IF Has(d, "value") THEN Put(p0, "value", d["value"]) ELSE p0
        p2 == IF "attempts" \notin ignore
              THEN Put(p1, "max_attempts", Get(d, "attempts", 0)) ELSE p1
        p3 == IF "connection_info" \notin ignore
              THEN Put(p2, "connection_info", Get(d, "connection_info", NoneStr)) ELSE p2
        p4 == IF "extra" \notin ignore THEN Merge(p3, Get(d, "extra", EmptyDict)) ELSE p3
        p5 == IF "geo_flags" \notin ignore THEN Merge(p4, Get(d, "geo_flags", EmptyDict)) ELSE p4
    IN  p5

(***************************************************************************)
(* Sub-resources: flags, topics, tags, hints                               *)
(***************************************************************************)
\* What the remote keeps of a posted entry: a flag always has a data field
Stored(res, p) == IF res = "flags" /\ ~Has(p, "data") THEN Put(p, "data", NoneStr) ELSE p

RECURSIVE PostEach(_, _, _)
\* for p in ps: r = api.post(res, json=p); r.raise_for_status()
PostEach(e, res, ps) ==
    IF ps = <<>> \/ e.failed THEN e
    ELSE PostEach(Mut(e, "POST", res, 0, Head(ps), RemoteAdd(e.rem, res, Stored(res, Head(ps)))),
                  res, Tail(ps))

RECURSIVE DeleteEach(_, _, _)
\* for x in listing: r = api.delete(res/x.id); r.raise_for_status()
DeleteEach(e, res, ids) ==
    IF ids = <<>> \/ e.failed THEN e
    ELSE DeleteEach(Mut(e, "DELETE", res, Head(ids), EmptyDict, RemoteDelete(e.rem, res, Head(ids))),
                    res, Tail(ids))

IdsOf(s) == [i \in 1..Len(s) |-> s[i].id]

\* DeleteExisting without the filter on challenge_id: every listed entry is deleted
DeleteExistingAll(e, res) ==
    IF e.failed THEN e
    ELSE LET all == IF Fails(e) THEN <<>> ELSE e.rem[res]
         IN  DeleteEach(ReadData(e, res, 0), res, IdsOf(all))

\* DeleteExisting with a filter that matches no entry: nothing is deleted
DeleteExistingNone(e, res) == IF e.failed THEN e ELSE ReadData(e, res, 0)

\* _delete_existing_flags / _tags / _hints: list all, delete those of this challenge
DeleteExisting(e, res) ==
    IF e.failed THEN e
    ELSE LET mine == IF Fails(e) THEN <<>> ELSE RemoteSub(e.rem, res, e.cid)
         IN  DeleteEach(ReadData(e, res, 0), res, IdsOf(mine))

_delete_existing_flags(e) == DeleteExisting(e, "flags")

_delete_existing_tags(e) == DeleteExisting(e, "tags")

_delete_existing_hints(e) == DeleteExisting(e, "hints")

\* _delete_existing_topics that lists the topics and deletes none
DeleteTopicsNone(e) == IF e.failed THEN e ELSE ReadData(e, "topics", e.cid)

\* _delete_existing_topics: list the challenge's topics, delete each
_delete_existing_topics(e) ==
    IF e.failed THEN e
    ELSE LET mine == IF Fails(e) THEN <<>> ELSE RemoteSub(e.rem, "topics", e.cid)
         IN  DeleteEach(ReadData(e, "topics", e.cid), "topics", IdsOf(mine))

FlagPayload(flag, c) ==
    IF Has(flag, "s")
    THEN [content |-> flag.s, type |-> "static", challenge_id |-> c]
    ELSE Put(flag, "challenge_id", c)

_create_flags(e) ==
    PostEach(e, "flags", [i \in 1..Len(e.doc["flags"]) |-> FlagPayload(e.doc["flags"][i], e.cid)])

_create_topics(e) ==
    PostEach(e, "topics", [i \in 1..Len(e.doc["topics"]) |->
                              [value |-> e.doc["topics"][i], type |-> "challenge", challenge_id |-> e.cid]])

_create_tags(e) ==
    PostEach(e, "tags", [i \in 1..Len(e.doc["tags"]) |->
                            [challenge_id |-> e.cid, value |-> e.doc["tags"][i]]])

HintPayload(hint, c) ==
    IF Has(hint, "s")
    THEN [content |-> hint.s, title |-> "", cost |-> 0, challenge_id |-> c]
    ELSE [content |-> hint.content, title |-> Get(hint, "title", ""),
          cost |-> Get(hint, "cost", 0), challenge_id |-> c]

_create_hints(e) ==
    PostEach(e, "hints", [i \in 1..Len(e.doc["hints"]) |-> HintPayload(e.doc["hints"][i], e.cid)])

\* challenge.get(key) is truthy: a non-empty list
NonEmpty(d, k) == Has(d, k) /\ d[k] # <<>>

(***************************************************************************)
(* Files                                                                   *)
(***************************************************************************)
\* hash_file: the SHA-1 digest of a content
Sha1(content) == <<"sha1", content>>

\* f.split("/")[-1] / Path(f).name of a local path
Basename(path) == Last(path)

\* The storage location <dir>/<name> of a remote file
Location(f) == <<f.dir, f.name>>

\* The remote stores an uploaded file under a directory of its own and, when it
\* is recent enough, keeps the checksum of the content
RemoteAddFile(r, c, name, content) ==
    RemoteAdd(r, "files", [challenge_id |-> c, dir |-> ToString(r.nextId), name |-> name,
                           content |-> content,
                           sha1sum |-> IF r.sha THEN Sha1(content) ELSE NoSha])

\* _validate_files that accepts every path
ValidateNothing(e) == e

_validate_files(e) ==
    IF e.failed THEN e
    ELSE LET files == Get(e.doc, "files", <<>>)
         IN  IF \E i \in 1..Len(files) : files[i] \notin DOMAIN e.disk
             THEN Raise(e, "InvalidChallengeFile") ELSE e

_delete_file(e, location) ==
    IF e.failed THEN e
    ELSE LET hit == IF Fails(e) THEN <<>>
                    ELSE SelectSeq(e.rem.files, LAMBDA f : Location(f) = location)
         IN  DeleteEach(ReadData(e, "files", 0), "files", IdsOf(hit))

_create_file(e, path) ==
    IF e.failed THEN e
    ELSE IF path \notin DOMAIN e.disk THEN Raise(e, "FileNotFoundError")
    ELSE LET e1 == [e EXCEPT !.open = @ + 1]
             e2 == Mut(e1, "POST", "files", 0,
                       [challenge_id |-> e.cid, type |-> "challenge", files |-> <<Basename(path)>>],
                       RemoteAddFile(e.rem, e.cid, Basename(path), e.disk[path]))
         IN  IF e2.failed THEN e2 ELSE [e2 EXCEPT !.open = @ - 1]

RECURSIVE RemoteAddFiles(_, _, _, _)
RemoteAddFiles(r, c, paths, dk) ==
    IF paths = <<>> THEN r
    ELSE RemoteAddFiles(RemoteAddFile(r, c, Basename(Head(paths)), dk[Head(paths)]), c, Tail(paths), dk)

_create_all_files(e) ==
    IF e.failed THEN e
    ELSE LET files == Get(e.doc, "files", <<>>)
         IN  IF \E i \in 1..Len(files) : files[i] \notin DOMAIN e.disk
             THEN Raise([e EXCEPT !.open = Cardinality({i \in 1..Len(files) :
                            \A j \in 1..i : files[j] \in DOMAIN e.disk})], "FileNotFoundError")
             ELSE LET e1 == [e EXCEPT !.open = @ + Len(files)]
                      e2 == Mut(e1, "POST", "files", 0,
                                [challenge_id |-> e.cid, type |-> "challenge",
                                 files |-> [i \in 1..Len(files) |-> Basename(files[i])]],
                                RemoteAddFiles(e.rem, e.cid, files, e.disk))
                  IN  IF e2.failed THEN e2 ELSE [e2 EXCEPT !.open = @ - Len(files)]

\* _normalize_remote_files: { basename: {url, location} }, in the order of the urls;
\* a later url with the same basename replaces the entry of an earlier one
UrlName(u) == Last(u.parts)

UrlLocation(u) == <<u.parts[Len(u.parts) - 1], Last(u.parts)>>

RECURSIVE DictKeys(_, _)
\* The keys of a dict built from a list, in insertion order
DictKeys(s, seen) ==
    IF s = <<>> THEN <<>>
    ELSE IF Head(s) \in seen THEN DictKeys(Tail(s), seen)
    ELSE <<Head(s)>> \o DictKeys(Tail(s), seen \cup {Head(s)})

_normalize_remote_files(urls) ==
    LET names == DictKeys([i \in 1..Len(urls) |-> UrlName(urls[i])], {})
        last(n) == urls[CHOOSE i \in 1..Len(urls) :
                          UrlName(urls[i]) = n /\ \A j \in (i + 1)..Len(urls) : UrlName(urls[j]) # n]
    IN  [names |-> names,
         at    |-> [n \in Range(names) |-> [url |-> last(n), location |-> UrlLocation(last(n))]]]

\* { basename: path } of the local file list, as the dict comprehension builds it
LocalFiles(files) ==
    LET names == DictKeys([i \in 1..Len(files) |-> Basename(files[i])], {})
    IN  [names |-> names,
         at    |-> [n \in Range(names) |->
                       files[CHOOSE i \in 1..Len(files) :
                               Basename(files[i]) = n /\ \A j \in (i + 1)..Len(files) : Basename(files[j]) # n]]]

\* _get_files_sha1sums: { location: sha1sum }
Sha1sums(r) == [loc \in {Location(r.files[i]) : i \in 1..Len(r.files)} |->
                   (CHOOSE f \in Range(r.files) : Location(f) = loc).sha1sum]

(***************************************************************************)
(* Requirements and the next link                                          *)
(***************************************************************************)
\* type(self["requirements"]) == dict; a bare list is [list |-> ..]
IsDict(req) == ~Has(req, "list")

\* challenge.get("requirements") is truthy
HasRequirements(d) ==
    Has(d, "requirements") /\
    IF IsDict(d["requirements"]) THEN DOMAIN d["requirements"] # {} ELSE d["requirements"].list # <<>>

RECURSIVE ResolveRequired(_, _)
\* The loop of _set_required_challenges: names become the id of the first challenge
\* with that name and are skipped when there is none, ids are taken as they are
ResolveRequired(rc, l) ==
    IF rc = <<>> THEN <<>>
    ELSE LET x == Head(rc)
             rest == ResolveRequired(Tail(rc), l)
         IN  IF Has(x, "name")
             THEN IF FirstByName(l, x.name) # NoId THEN <<FirstByName(l, x.name)>> \o rest ELSE rest
             ELSE IF Has(x, "id") THEN <<x.id>> \o rest
             ELSE rest

\* The names of rc that match no challenge of the listing, in order
Unresolved(rc, l) == SelectSeq(rc, LAMBDA x : Has(x, "name") /\ FirstByName(l, x.name) = NoId)

RECURSIVE WarnEach(_, _, _)
WarnEach(e, n, what) == IF n = 0 THEN e ELSE WarnEach(Warn(e, what), n - 1, what)

\* required_challenges after the self-reference check and the sort
Prerequisites(required, c) ==
    SortInts(IF c \in Range(required) THEN RemoveFirst(required, c) ELSE required)

_set_required_challenges(e) ==
    IF e.failed THEN e
    ELSE LET l   == Listing(e)
             e1  == ListCall(e)
             req == e.doc["requirements"]
             rc  == IF IsDict(req) THEN Get(req, "prerequisites", <<>>) ELSE req.list
             anonymize == IF IsDict(req) THEN Get(req, "anonymize", FALSE) ELSE FALSE
             required  == ResolveRequired(rc, l)
             e2  == WarnEach(e1, Len(Unresolved(rc, l)), "invalid requirement name")
             e3  == IF e.cid \in Range(required) THEN Warn(e2, "cannot require itself") ELSE e2
             body == [requirements |-> [prerequisites |-> Prerequisites(required, e.cid),
                                        anonymize |-> anonymize]]
         IN  Mut(e3, "PATCH", "challenges", e.cid, body, RemotePatch(e3.rem, e.cid, body))

_set_next(e, nxt) ==
    IF e.failed THEN e
    ELSE IF Has(nxt, "name")
    THEN LET l  == Listing(e)
             e1 == ListCall(e)
             id == FirstByName(l, nxt.name)
             e2 == IF id = NoId THEN Warn(e1, "cannot find next challenge") ELSE e1
             e3 == IF id # NoId /\ id = e.cid THEN Warn(e2, "cannot set next challenge itself") ELSE e2
             n  == IF id = e.cid THEN NoId ELSE id
             body == [next_id |-> n]
         IN  Mut(e3, "PATCH", "challenges", e.cid, body, RemotePatch(e3.rem, e.cid, body))
    ELSE IF Has(nxt, "id") /\ nxt.id > 0
    \* _next = remote_challenge["id"]: remote_challenge is not bound on this branch
    THEN Raise(e, "UnboundLocalError")
    ELSE LET body == [next_id |-> NoId]
         IN  Mut(e, "PATCH", "challenges", e.cid, body, RemotePatch(e.rem, e.cid, body))

RECURSIVE NormalizeRequirements(_, _)
\* normalize_requirements of _compare_challenge_requirements: an id becomes the name
\* of the challenge with that id and is dropped when there is none
NormalizeRequirements(rs, l) ==
    IF rs = <<>> THEN <<>>
    ELSE LET x == Head(rs)
             rest == NormalizeRequirements(Tail(rs), l)
         IN  IF Has(x, "id")
             THEN IF \E i \in 1..Len(l) : l[i].id = x.id
                  THEN <<[name |-> l[CHOOSE i \in 1..Len(l) : l[i].id = x.id].name]>> \o rest
                  ELSE rest
             ELSE <<x>> \o rest

Count(s, x) == Cardinality({i \in 1..Len(s) : s[i] = x})

\* nr1.sort(); nr2.sort(); nr1 == nr2: the two lists hold the same elements, each
\* the same number of times
SortedEqual(a, b) == \A x \in Range(a) \cup Range(b) : Count(a, x) = Count(b, x)

\* _compare_challenge_requirements(r1, r2), given the listing it loads
_compare_challenge_requirements(r1, r2, l) ==
    SortedEqual(NormalizeRequirements(r1, l), NormalizeRequirements(r2, l))

\* normalize_next of _compare_challenge_next: does it call load_installed_challenge
NextLoads(r) == Has(r, "id") /\ r.id > 0

NormalizeNext(r, rm) ==
    IF Has(r, "id")
    THEN IF r.id > 0 /\ RemoteHas(rm, r.id)
         THEN [name |-> rm.chals[RemoteIndex(rm, r.id)].name] ELSE RefNone
    ELSE r

\* The calls of _compare_challenge_next(r1, r2)
CompareNextCalls(e, r1, r2) ==
    LET e1 == IF NextLoads(r1) THEN LoadInstalledCall(e, r1.id) ELSE e
    IN  IF NextLoads(r2) THEN LoadInstalledCall(e1, r2.id) ELSE e1

_compare_challenge_next(r1, r2, rm) == NormalizeNext(r1, rm) = NormalizeNext(r2, rm)

(***************************************************************************)
(* Challenge._normalize_challenge                                          *)
(***************************************************************************)
NormText(s) == RemoveTabs(ReplaceCRLF(Strip(s)))

CopyKeys == <<"name", "category", "attribution", "value", "type", "state", "connection_info">>

ExtraKeys == <<"initial", "decay", "minimum">>

GeoKeys == <<"latitude", "longitude", "tolerance_radius">>

\* { k: data[k] for k in keys if k in data }
Lift(data, keys) == [k \in {x \in Range(keys) : Has(data, x)} |-> data[k]]

NormalizeFlag(f) ==
    IF f.type = "static" /\ (f.data = NoneStr \/ f.data = "")
    THEN [s |-> f.content]
    ELSE [content |-> ReplaceCRLF(Strip(f.content)), type |-> f.type, data |-> f.data]

NormalizeHint(h) ==
    IF h.cost > 0 THEN [content |-> h.content, cost |-> h.cost] ELSE [s |-> h.content]

\* The keys of the normalized challenge, in the order the code inserts them
NormalizedKeys(data) ==
    SelectSeq(CopyKeys, LAMBDA k : Has(data, k))
    \o <<"description">>
    \o (IF Has(data, "attribution") THEN <<>> ELSE <<"attribution">>)
    \o <<"attempts">>
    \o (IF Lift(data, ExtraKeys) # EmptyDict THEN <<"extra">> ELSE <<>>)
    \o (IF Lift(data, GeoKeys) # EmptyDict THEN <<"geo_flags">> ELSE <<>>)
    \o <<"flags", "tags", "hints", "topics", "requirements", "next">>

\* The calls of _normalize_challenge, each followed by raise_for_status()
NormalizeCalls(e, data) ==
    LET e1 == Read(e, "flags", e.cid)
        e2 == Read(e1, "tags", e.cid)
        e3 == Read(e2, "hints", e.cid)
        e4 == Read(e3, "topics", e.cid)
        e5 == Read(e4, "requirements", e.cid)
        e6 == IF ~e5.failed /\ Get(data["requirements"], "prerequisites", <<>>) # <<>>
              THEN Read(e5, "challenges", 0) ELSE e5
        nid == Get(data, "next_id", NoId)
    IN  IF e6.failed \/ nid = NoId THEN e6
        ELSE IF RemoteHas(e6.rem, nid) THEN Read(e6, "challenges", nid)
        ELSE Raise(ReadNoCheck(e6, "challenges", nid), "HTTPError")

\* PrerequisiteNames that keeps the id of each listed challenge
PrerequisiteIds(chals, requirements) ==
    LET named == SelectSeq(chals, LAMBDA ch : ch.id \in Range(requirements))
    IN  [i \in 1..Len(named) |-> [id |-> named[i].id]]

\* [c["name"] for c in challenges if c["id"] in requirements]
PrerequisiteNames(chals, requirements) ==
    LET named == SelectSeq(chals, LAMBDA ch : ch.id \in Range(requirements))
    IN  [i \in 1..Len(named) |-> [name |-> named[i].name]]

\* The value _normalize_challenge returns for the challenge data of challenge c
_normalize_challenge(rm, c, data) ==
    LET copied == Lift(data, CopyKeys)
        texts  == [description |-> NormText(data["description"]),
                   attribution |-> NormText(Get(data, "attribution", <<>>)),
                   attempts    |-> data["max_attempts"]]
        extra  == IF Lift(data, ExtraKeys) # EmptyDict
                  THEN [extra |-> Lift(data, ExtraKeys)] ELSE EmptyDict
        geo    == IF Lift(data, GeoKeys) # EmptyDict
                  THEN [geo_flags |-> Lift(data, GeoKeys)] ELSE EmptyDict
        flags  == RemoteSub(rm, "flags", c)
        tags   == RemoteSub(rm, "tags", c)
        hints  == RemoteSub(rm, "hints", c)
        topics == RemoteSub(rm, "topics", c)
        reqs   == Get(data["requirements"], "prerequisites", <<>>)
        nid    == Get(data, "next_id", NoId)
        subs   == [flags  |-> [i \in 1..Len(flags) |-> NormalizeFlag(flags[i])],
                   tags   |-> [i \in 1..Len(tags) |-> tags[i].value],
                   hints  |-> [i \in 1..Len(hints) |-> NormalizeHint(hints[i])],
                   topics |-> [i \in 1..Len(topics) |-> topics[i].value],
                   requirements |->
                       [prerequisites |-> PrerequisiteNames(rm.chals, reqs),
                        anonymize |-> Get(data["requirements"], "anonymize", FALSE)],
                   next   |-> IF nid # NoId
                              THEN [name |-> rm.chals[RemoteIndex(rm, nid)].name]
                              ELSE RefNone]
    IN  Merge(Merge(Merge(Merge(copied, texts), extra), geo), subs)

(***************************************************************************)
(* Challenge.sync                                                          *)
(***************************************************************************)
\* self.get("name") is truthy
HasName(d) == Has(d, "name") /\ d["name"] # ""

\* ResetIfIgnored that resets nothing: the payload keeps the local values
ResetNothing(payload, props, ignore, value) == payload

RECURSIVE ResetIfIgnored(_, _, _, _)
\* for p in reset_properties_if_ignored: if p in ignore: payload[p] = value(p)
ResetIfIgnored(payload, props, ignore, value) ==
    IF props = <<>> THEN payload
    ELSE ResetIfIgnored(IF Head(props) \in ignore
                        THEN Put(payload, Head(props), value[Head(props)]) ELSE payload,
                        Tail(props), ignore, value)

SyncResetProperties == <<"value", "category", "type", "description", "attribution">>

RECURSIVE DeleteStale(_, _, _, _)
\* Delete remote files which are no longer defined locally
DeleteStale(e, names, rf, lf) ==
    IF names = <<>> \/ e.failed THEN e
    ELSE DeleteStale(IF Head(names) \notin Range(lf.names)
                     THEN _delete_file(e, rf.at[Head(names)].location) ELSE e,
                     Tail(names), rf, lf)

\* SyncFile that never looks at the checksums: a file the remote has is re-uploaded
SyncFileAlways(e, n, rf, lf, sums) ==
    IF n \notin Range(rf.names) THEN _create_file(e, lf.at[n])
    ELSE _create_file(_delete_file(e, rf.at[n].location), lf.at[n])

\* One round of the loop over local_files in sync
SyncFile(e, n, rf, lf, sums) ==
    IF n \notin Range(rf.names) THEN _create_file(e, lf.at[n])
    ELSE IF rf.at[n].location \notin DOMAIN sums THEN Raise(e, "KeyError")
    ELSE IF sums[rf.at[n].location] # NoSha /\ Sha1(e.disk[lf.at[n]]) = sums[rf.at[n].location]
    THEN e
    ELSE _create_file(_delete_file(e, rf.at[n].location), lf.at[n])

RECURSIVE SyncEachFile(_, _, _, _, _)
SyncEachFile(e, names, rf, lf, sums) ==
    IF names = <<>> \/ e.failed THEN e
    ELSE SyncEachFile(SyncFile(e, Head(names), rf, lf, sums), Tail(names), rf, lf, sums)

\* The files block of sync
SyncFiles(e, remote_challenge) ==
    IF e.failed THEN e
    ELSE LET e1 == [e EXCEPT !.doc = Put(@, "files", Get(@, "files", <<>>))]
             lf == LocalFiles(e1.doc["files"])
             rf == _normalize_remote_files(remote_challenge["files"])
             e2 == DeleteStale(e1, rf.names, rf, lf)
             e3 == Read(e2, "files", 0)
         IN  IF lf.names = <<>> THEN e2
             ELSE SyncEachFile(e3, lf.names, rf, lf, Sha1sums(e2.rem))

\* Delete-all-then-recreate of one of flags, topics, tags, hints
SyncGroup(e, res, ignore) ==
    IF res \in ignore THEN e
    ELSE LET e1 == CASE res = "flags"  -> _delete_existing_flags(e)
                     [] res = "topics" -> _delete_existing_topics(e)
                     [] res = "tags"   -> _delete_existing_tags(e)
                     [] res = "hints"  -> _delete_existing_hints(e)
         IN  IF e1.failed \/ ~NonEmpty(e.doc, res) THEN e1
             ELSE CASE res = "flags"  -> _create_flags(e1)
                    [] res = "topics" -> _create_topics(e1)
                    [] res = "tags"   -> _create_tags(e1)
                    [] res = "hints"  -> _create_hints(e1)

\* SyncMakesVisible that always reveals the challenge
SyncMakesVisibleAlways(d, ignore, remote_challenge) == TRUE

\* SyncMakesVisible that goes by the remote state whether state is ignored or not
SyncMakesVisibleRemote(d, ignore, remote_challenge) ==
    Get(remote_challenge, "state", NoneStr) = "visible"

\* make_challenge_visible, as sync decides it
SyncMakesVisible(d, ignore, remote_challenge) ==
    IF "state" \notin ignore
    THEN Get(d, "state", "visible") = "visible"
    ELSE Get(remote_challenge, "state", NoneStr) = "visible"

SetVisible(e) ==
    Mut(e, "PATCH", "challenges", e.cid, [state |-> "visible"],
        RemotePatch(e.rem, e.cid, [state |-> "visible"]))

\* SetRequirementsAndNext the other way round: the next link, then requirements
SetNextAndRequirements(e, ignore) ==
    LET e1 == IF ~e.failed /\ "next" \notin ignore
              THEN _set_next(e, Get(e.doc, "next", RefNone)) ELSE e
    IN  IF ~e1.failed /\ HasRequirements(e1.doc) /\ "requirements" \notin ignore
        THEN _set_required_challenges(e1) ELSE e1

\* The tail shared by sync and create: requirements, then the next link
SetRequirementsAndNext(e, ignore) ==
    LET e1 == IF ~e.failed /\ HasRequirements(e.doc) /\ "requirements" \notin ignore
              THEN _set_required_challenges(e) ELSE e
    IN  IF ~e1.failed /\ "next" \notin ignore
        THEN _set_next(e1, Get(e1.doc, "next", RefNone)) ELSE e1

\* sync once the remote challenge is loaded: the payload PATCH and what follows it
SyncLoaded(e5, d, ignore, remote_challenge) ==
    LET payload == ResetIfIgnored(_get_initial_challenge_payload(d, ignore),
                                  SyncResetProperties, ignore, remote_challenge)
        e6 == Mut(e5, "PATCH", "challenges", e5.cid, payload, RemotePatch(e5.rem, e5.cid, payload))
        e7 == SyncGroup(SyncGroup(SyncGroup(e6, "flags", ignore), "topics", ignore), "tags", ignore)
        e8 == IF "files" \notin ignore THEN SyncFiles(e7, remote_challenge) ELSE e7
        e9 == SetRequirementsAndNext(SyncGroup(e8, "hints", ignore), ignore)
    IN  IF ~e9.failed /\ SyncMakesVisible(d, ignore, remote_challenge)
        THEN SetVisible(e9) ELSE e9

sync(e0, ignore) ==
    LET e1 == IF "name" \in ignore THEN Warn(e0, "name cannot be ignored") ELSE e0
        e2 == IF ~HasName(e1.doc) THEN Raise(e1, "InvalidChallengeFile") ELSE e1
        e3 == IF ~e2.failed /\ NonEmpty(e2.doc, "files") /\ "files" \notin ignore
              THEN _validate_files(e2) ELSE e2
        e4 == _load_challenge_id(e3)
        e5 == LoadInstalledCall(e4, e4.cid)
    IN  IF e5.failed THEN e5
        ELSE SyncLoaded(e5, e0.doc, ignore, RemoteChallenge(e5.rem, e5.cid))

(***************************************************************************)
(* Challenge.create                                                        *)
(***************************************************************************)
\* not challenge.get("value", False): no value, or the value 0
NoValue(d) == ~Has(d, "value") \/ d["value"] = 0

CreateResetProperties == <<"category", "description", "attribution">>

CreateGroup(e, res, ignore) ==
    IF e.failed \/ ~NonEmpty(e.doc, res) \/ res \in ignore THEN e
    ELSE CASE res = "flags"  -> _create_flags(e)
           [] res = "topics" -> _create_topics(e)
           [] res = "tags"   -> _create_tags(e)
           [] res = "files"  -> _create_all_files(e)
           [] res = "hints"  -> _create_hints(e)

create(e0, ignore) ==
    LET e1 == WarnEach(e0, Cardinality({"name", "value"} \cap ignore), "cannot be ignored")
        e2 == IF ~HasName(e1.doc) THEN Raise(e1, "InvalidChallengeDefinition")
              ELSE IF NoValue(e1.doc) /\ Get(e1.doc, "type", "standard") # "dynamic"
              THEN Raise(e1, "InvalidChallengeDefinition") ELSE e1
        e3 == IF ~e2.failed /\ NonEmpty(e2.doc, "files") /\ "files" \notin ignore
              THEN _validate_files(e2) ELSE e2
        payload == ResetIfIgnored(_get_initial_challenge_payload(e0.doc, ignore),
                                  CreateResetProperties, ignore,
                                  [category |-> "", description |-> <<>>, attribution |-> <<>>])
        e4 == Mut(e3, "POST", "challenges", 0, payload, RemoteCreate(e3.rem, payload))
        e5 == IF e4.failed THEN e4 ELSE [e4 EXCEPT !.cid = e3.rem.nextId]
        e6 == CreateGroup(CreateGroup(CreateGroup(e5, "flags", ignore), "topics", ignore), "tags", ignore)
        e7 == CreateGroup(CreateGroup(e6, "files", ignore), "hints", ignore)
        e8 == SetRequirementsAndNext(e7, ignore)
    IN  IF ~e8.failed /\ (Get(e0.doc, "state", "visible") = "visible" \/ "state" \in ignore)
        THEN SetVisible(e8) ELSE e8

(***************************************************************************)
(* Challenge.verify                                                        *)
(***************************************************************************)
is_default_challenge_property(key, value) ==
    \/ key = "connection_info" /\ value = NoneStr
    \/ key = "attempts" /\ value = 0
    \/ key = "state" /\ value = "visible"
    \/ key = "type" /\ value = "standard"
    \/ key \in {"tags", "hints", "topics", "requirements", "files"} /\ value = <<>>
    \/ key = "requirements" /\ value = [prerequisites |-> <<>>, anonymize |-> FALSE]
    \/ key = "next" /\ value = RefNone

\* The requirements branch of verify, for a local value that differs from the remote one
VerifyRequirements(e, local, normalized) ==
    IF IsDict(local) /\ ~Has(local, "prerequisites") THEN Raise(e, "KeyError")
    ELSE LET cr == IF IsDict(local) THEN local["prerequisites"] ELSE local.list
             ca == IF IsDict(local) THEN Get(local, "anonymize", FALSE) ELSE FALSE
             l  == Listing(e)
             e1 == ListCall(e)
         IN  IF _compare_challenge_requirements(cr, normalized["prerequisites"], l)
                /\ ca = normalized["anonymize"]
             THEN e1
             ELSE Return(Warn(e1, "requirements comparison failed."), FALSE)

\* The next branch of verify, for a local value that differs from the remote one
VerifyNext(e, local, normalized) ==
    LET e1 == CompareNextCalls(e, local, normalized)
    IN  IF e1.failed THEN e1
        ELSE IF _compare_challenge_next(local, normalized, e.rem) THEN e1
        ELSE Return(Warn(e1, "next comparison failed."), FALSE)

\* One round of the loop over the keys of the normalized challenge
VerifyKey(e, key, normalized, ignore) ==
    IF key \in ignore THEN e
    ELSE IF ~Has(e.doc, key)
    THEN IF is_default_challenge_property(key, normalized[key]) THEN e
         ELSE Return(Warn(e, key \o " is not in challenge."), FALSE)
    ELSE IF e.doc[key] = normalized[key] THEN e
    ELSE IF key = "requirements" THEN VerifyRequirements(e, e.doc[key], normalized[key])
    ELSE IF key = "next" THEN VerifyNext(e, e.doc[key], normalized[key])
    ELSE Return(Warn(e, key \o " comparison failed."), FALSE)

RECURSIVE VerifyKeys(_, _, _, _)
VerifyKeys(e, keys, normalized, ignore) ==
    IF keys = <<>> \/ e.failed \/ e.done THEN e
    ELSE VerifyKeys(VerifyKey(e, Head(keys), normalized, ignore), Tail(keys), normalized, ignore)

\* The bytes a download of the remote file at this location returns
RemoteContent(rm, location) == (CHOOSE f \in Range(rm.files) : Location(f) = location).content

\* One round of the loop over remote_files in verify
VerifyFile(e, n, rf, lf, sums) ==
    IF n \notin Range(lf.names) THEN Return(Warn(e, "file is not in local challenge"), FALSE)
    ELSE IF rf.at[n].location \notin DOMAIN sums THEN Raise(e, "KeyError")
    ELSE IF sums[rf.at[n].location] # NoSha
    THEN IF Sha1(e.disk[lf.at[n]]) # sums[rf.at[n].location]
         THEN Return(Warn(e, "sha1sum does not match"), FALSE)
         ELSE Return(e, TRUE)
    ELSE LET e1 == Read(e, "download", 0)
         IN  IF e1.failed THEN e1
             ELSE IF RemoteContent(e.rem, rf.at[n].location) # e.disk[lf.at[n]]
             THEN Return(Warn(e1, "file content does not match"), FALSE)
             ELSE e1

RECURSIVE VerifyEachFile(_, _, _, _, _)
VerifyEachFile(e, names, rf, lf, sums) ==
    IF names = <<>> \/ e.failed \/ e.done THEN e
    ELSE VerifyEachFile(VerifyFile(e, Head(names), rf, lf, sums), Tail(names), rf, lf, sums)

\* VerifyFiles that repairs what it finds: it runs the files block of sync
VerifyFilesResync(e, remote_challenge) ==
    IF e.failed \/ e.done THEN e ELSE SyncFiles(e, remote_challenge)

\* The files block of verify
VerifyFiles(e, remote_challenge) ==
    IF e.failed \/ e.done THEN e
    ELSE IF _validate_files(e).failed THEN Return(Warn(e, "InvalidChallengeFile"), FALSE)
    ELSE LET lf == LocalFiles(e.doc["files"])
             rf == _normalize_remote_files(remote_challenge["files"])
         IN  IF \E i \in 1..Len(lf.names) : lf.names[i] \notin Range(rf.names)
             THEN Return(Warn(e, "file is not in remote challenge"), FALSE)
             ELSE VerifyEachFile(Read(e, "files", 0), rf.names, rf, lf, Sha1sums(e.rem))

\* verify once the remote challenge is loaded
VerifyLoaded(e2, ignore, remote_challenge) ==
    LET e3 == NormalizeCalls(e2, remote_challenge)
    IN  IF e3.failed THEN e3
        ELSE LET normalized == _normalize_challenge(e2.rem, e2.cid, remote_challenge)
                 e4 == [e3 EXCEPT !.doc = Put(@, "files", Get(@, "files", <<>>))]
                 e5 == VerifyKeys(e4, NormalizedKeys(remote_challenge), normalized, ignore)
                 e6 == IF "files" \notin ignore THEN VerifyFiles(e5, remote_challenge) ELSE e5
             IN  IF e6.failed \/ e6.done THEN e6 ELSE Return(e6, TRUE)

verify(e0, ignore) ==
    LET e1 == _load_challenge_id(e0)
        e2 == LoadInstalledCall(e1, e1.cid)
    IN  IF e2.failed THEN e2
        ELSE VerifyLoaded(e2, ignore, RemoteChallenge(e2.rem, e2.cid))

(***************************************************************************)
(* Challenge.mirror                                                        *)
(***************************************************************************)
FilesDirectoryName == "dist"

\* One round of the loop over the remote files in mirror: m = [e, files]
MirrorFile(m, url, local_files) ==
    LET e1 == Read(m.e, "download", 0)
        n  == UrlName(url)
        content == RemoteContent(m.e.rem, UrlLocation(url))
    IN  IF e1.failed THEN [m EXCEPT !.e = e1]
        ELSE IF n \notin Range(local_files.names)
        THEN [e     |-> [e1 EXCEPT !.disk = Put(@, <<FilesDirectoryName, n>>, content)],
              files |-> Append(m.files, <<FilesDirectoryName, n>>)]
        ELSE [e     |-> [e1 EXCEPT !.disk = Put(@, local_files.at[n], content)],
              files |-> m.files]

RECURSIVE MirrorEachFile(_, _, _)
MirrorEachFile(m, urls, local_files) ==
    IF urls = <<>> \/ m.e.failed THEN m
    ELSE MirrorEachFile(MirrorFile(m, Head(urls), local_files), Tail(urls), local_files)

\* The files block of mirror: challenge is the normalized challenge
MirrorFiles(e, challenge, remote_challenge) ==
    LET urls == remote_challenge["files"]
        m == MirrorEachFile([e |-> e, files |-> challenge["files"]], urls,
                            LocalFiles(challenge["files"]))
        remote_file_names == {UrlName(urls[i]) : i \in 1..Len(urls)}
    IN  [e     |-> m.e,
         files |-> SelectSeq(m.files, LAMBDA f : Basename(f) \in remote_file_names)]

\* Overwrite that takes every key of the challenge
OverwriteAll(d, challenge, ignore) ==
    [k \in (DOMAIN d) \cup (DOMAIN challenge) |->
        IF k \in DOMAIN challenge THEN challenge[k] ELSE d[k]]

\* Overwrite that updates only the keys the document already has
OverwriteExisting(d, challenge, ignore) ==
    [k \in DOMAIN d |-> IF k \in DOMAIN challenge /\ k \notin ignore THEN challenge[k] ELSE d[k]]

\* for key in challenge.keys(): if key not in ignore: self[key] = challenge[key]
Overwrite(d, challenge, ignore) ==
    [k \in (DOMAIN d) \cup ((DOMAIN challenge) \ ignore) |->
        IF k \in DOMAIN challenge /\ k \notin ignore THEN challenge[k] ELSE d[k]]

\* mirror once the remote challenge is loaded
MirrorLoaded(e2, ignore, remote_challenge) ==
    LET e3 == NormalizeCalls(e2, remote_challenge)
    IN  IF e3.failed THEN e3
        ELSE LET challenge == Put(_normalize_challenge(e2.rem, e2.cid, remote_challenge),
                                  "files", <<>>)
                 m == IF "files" \notin ignore THEN MirrorFiles(e3, challenge, remote_challenge)
                      ELSE [e |-> e3, files |-> challenge["files"]]
             IN  IF m.e.failed THEN m.e
                 ELSE [m.e EXCEPT !.doc = Overwrite(@, Put(challenge, "files", m.files), ignore)]

mirror(e0, ignore) ==
    LET e1 == _load_challenge_id(e0)
        e2 == LoadInstalledCall(e1, e1.cid)
    IN  IF e2.failed THEN e2
        ELSE MirrorLoaded(e2, ignore, RemoteChallenge(e2.rem, e2.cid))

(***************************************************************************)
(* The state machine: one Challenge object, its directory and the remote.  *)
(* Every action is one call of an operation, from its first statement to   *)
(* its return or to the exception that ends it.  hist records, per call,   *)
(* the operation, its arguments, the state it started from and the calls   *)
(* it issued.                                                              *)
(***************************************************************************)
MaxOps == 2

\* The remote challenges the document can refer to
Warmup ==
    [id |-> 1, name |-> "Warmup", category |-> "misc", description |-> <<"w">>,
     attribution |-> <<>>, value |-> 50, type |-> "standard", state |-> "visible",
     max_attempts |-> 0, connection_info |-> NoneStr, next_id |-> NoId,
     requirements |-> EmptyDict]

Intro == [Warmup EXCEPT !.id = 3, !.name = "Intro"]

\* The remote counterpart of the document, as an earlier run left it
Installed ==
    [id |-> 2, name |-> "Chal", category |-> "misc", description |-> <<"d">>,
     attribution |-> <<"a">>, value |-> 100, type |-> "standard", state |-> "visible",
     max_attempts |-> 0, connection_info |-> NoneStr, next_id |-> NoId,
     requirements |-> EmptyDict]

RemoteFile(id, c, name, content, sha) ==
    [id |-> id, challenge_id |-> c, dir |-> ToString(id), name |-> name,
     content |-> content, sha1sum |-> IF sha THEN Sha1(content) ELSE NoSha]

EmptyRemote ==
    [chals |-> <<Warmup, Intro>>, flags |-> <<>>, tags |-> <<>>, topics |-> <<>>,
     hints |-> <<>>, files |-> <<>>, nextId |-> 20, sha |-> TRUE]

Remotes ==
    { EmptyRemote,
      \* the challenge is installed and visible; the remote keeps checksums
      [EmptyRemote EXCEPT
          !.chals = <<Warmup, Installed, Intro>>,
          !.flags = <<[id |-> 10, challenge_id |-> 2, content |-> <<"f">>, type |-> "static",
                       data |-> NoneStr],
                      [id |-> 11, challenge_id |-> 1, content |-> <<"w">>, type |-> "static",
                       data |-> ""]>>,
          !.tags  = <<[id |-> 12, challenge_id |-> 1, value |-> "old"]>>,
          !.files = <<RemoteFile(13, 2, "chal.txt", "v1", TRUE),
                      RemoteFile(14, 1, "chal.txt", "w1", TRUE),
                      RemoteFile(18, 2, "extra.txt", "x0", TRUE)>>],
      \* the challenge is installed and hidden, with prerequisites, a next link, a
      \* hint that costs and three attempts, on a remote that keeps no checksums
      [EmptyRemote EXCEPT
          !.chals = <<Warmup,
                      [Installed EXCEPT !.state = "hidden", !.max_attempts = 3, !.next_id = 3,
                                        !.requirements = [prerequisites |-> <<1>>,
                                                          anonymize |-> FALSE]],
                      Intro>>,
          !.flags = <<[id |-> 10, challenge_id |-> 2, content |-> <<"g", "SP">>, type |-> "regex",
                       data |-> "case_insensitive"]>>,
          !.hints = <<[id |-> 12, challenge_id |-> 2, content |-> "h", title |-> "T", cost |-> 10]>>,
          !.topics = <<[id |-> 15, challenge_id |-> 2, value |-> "tp", type |-> "challenge"]>>,
          !.tags  = <<[id |-> 17, challenge_id |-> 2, value |-> "old"]>>,
          !.files = <<RemoteFile(13, 2, "chal.txt", "v1", FALSE),
                      RemoteFile(16, 2, "old.txt", "o1", FALSE)>>,
          !.sha   = FALSE] }

\* The challenge directory: the files on disk
Disks ==
    { (<<"chal.txt">> :> "v1") @@ (<<"dist", "extra.txt">> :> "x1"),
      (<<"chal.txt">> :> "v2") @@ (<<"dist", "extra.txt">> :> "x1") @@ (<<"old.txt">> :> "o1") }

BaseDoc ==
    [name |-> "Chal", category |-> "misc", description |-> <<"d">>, attribution |-> <<"a">>,
     value |-> 100, flags |-> <<[s |-> <<"f">>]>>]

\* What a document changes of, or adds to, the base document
Variants ==
    { EmptyDict,
      [hints |-> <<[s |-> "h"]>>, tags |-> <<"t1", "t2">>, topics |-> <<"tp">>],
      [hints |-> <<[content |-> "h", cost |-> 10]>>],
      [hints |-> <<[content |-> "h", title |-> "T", cost |-> 10]>>],
      [flags |-> <<[s |-> <<"f">>],
                   [content |-> <<"g">>, type |-> "regex", data |-> "case_insensitive"]>>],
      [flags |-> <<[content |-> <<"f">>, type |-> "static", data |-> ""]>>],
      [state |-> "hidden"],
      [state |-> "visible", attempts |-> 3, connection_info |-> "nc"],
      [requirements |-> [list |-> <<[name |-> "Warmup"]>>]],
      [requirements |-> [list |-> <<[id |-> 1]>>]],
      [requirements |-> [list |-> <<[name |-> "Warmup"], [name |-> "Warmup"]>>]],
      [requirements |-> [list |-> <<[name |-> "Chal"], [name |-> "Warmup"]>>]],
      [requirements |-> [list |-> <<[name |-> "Chal"], [id |-> 2], [name |-> "Chal"]>>]],
      [requirements |-> [prerequisites |-> <<[name |-> "Intro"], [id |-> 1]>>,
                         anonymize |-> TRUE]],
      [requirements |-> [list |-> <<[name |-> "Nope"]>>], next |-> [name |-> "Nope"]],
      [next |-> [name |-> "Warmup"]],
      [next |-> [id |-> 1]],
      [next |-> [name |-> "Chal"]],
      [files |-> << <<"chal.txt">> >>],
      [files |-> << <<"chal.txt">>, <<"dist", "extra.txt">> >>],
      [files |-> << <<"missing.txt">> >>],
      [type |-> "dynamic", extra |-> [initial |-> 500, decay |-> 10, minimum |-> 50]],
      [description |-> <<"d", "SP">>],
      [value |-> 0],
      [name |-> "Ghost"],
      \* the document of the hidden remote challenge of Remotes
      [state |-> "hidden", attempts |-> 3, next |-> [name |-> "Intro"],
       requirements |-> [list |-> <<[name |-> "Warmup"]>>],
       flags |-> <<[content |-> <<"g">>, type |-> "regex", data |-> "case_insensitive"]>>,
       hints |-> <<[content |-> "h", cost |-> 10]>>, topics |-> <<"tp">>, tags |-> <<"old">>,
       files |-> << <<"chal.txt">>, <<"old.txt">> >>] }

\* The base document without its flags
NoFlagsDoc == [k \in (DOMAIN BaseDoc) \ {"flags"} |-> BaseDoc[k]]

Docs ==
    {Merge(BaseDoc, v) : v \in Variants}
    \cup { NoFlagsDoc,
           [name |-> "Chal", value |-> 100],
           [name |-> "Chal", category |-> "misc", description |-> <<"d">>],
           [category |-> "misc", value |-> 100] }

\* The scalar fields of a challenge
Scalars ==
    {"category", "description", "attribution", "value", "type", "attempts",
     "connection_info", "state"}

IgnoreSets == { {}, Scalars, {"flags", "files", "requirements"} }

\* The files of the directory are read for the documents that list files: the other
\* documents start with one directory
Init ==
    /\ doc \in Docs
    /\ cid = NoId
    /\ rem \in Remotes
    /\ disk \in {d \in Disks : Has(doc, "files") \/ <<"old.txt">> \notin DOMAIN d}
    /\ hist = <<>>

\* The record of one call of an operation: e0 is the environment it started in,
\* e the one it ended in
Entry(op, ignore, e0, e) ==
    [op |-> op, ignore |-> ignore, ok |-> ~e.failed, err |-> e.err, ret |-> e.ret,
     log |-> e.log, warn |-> e.warn, open |-> e.open,
     pre |-> [doc |-> e0.doc, cid |-> e0.cid, rem |-> e0.rem, disk |-> e0.disk]]

Finish(op, ignore, e0, e) ==
    /\ doc' = e.doc
    /\ cid' = e.cid
    /\ rem' = e.rem
    /\ disk' = e.disk
    /\ hist' = Append(hist, Entry(op, ignore, e0, e))

Env(f) == NewEnv(doc, cid, rem, disk, f)

Create(ignore, f) ==
    /\ Len(hist) < MaxOps
    /\ Finish("create", ignore, Env(f), create(Env(f), ignore))

Sync(ignore, f) ==
    /\ Len(hist) < MaxOps
    /\ Finish("sync", ignore, Env(f), sync(Env(f), ignore))

Mirror(ignore, f) ==
    /\ Len(hist) < MaxOps
    /\ Finish("mirror", ignore, Env(f), mirror(Env(f), ignore))

Verify(ignore, f) ==
    /\ Len(hist) < MaxOps
    /\ Finish("verify", ignore, Env(f), verify(Env(f), ignore))

Next ==
    \E ignore \in IgnoreSets :
        \/ Create(ignore, 0)
        \/ Sync(ignore, 0)
        \/ Mirror(ignore, 0)
        \/ Verify(ignore, 0)

Spec == Init /\ [][Next]_vars

\* The remote answers the call number failAt of an operation with an error; a number
\* beyond the calls of the operation leaves it undisturbed
MaxFailAt == 30

\* One operation on an initial state, with one call that the remote refuses
NextFail ==
    \E ignore \in IgnoreSets, f \in 1..MaxFailAt :
        /\ hist = <<>>
        /\ \/ Create(ignore, f)
           \/ Sync(ignore, f)
           \/ Mirror(ignore, f)
           \/ Verify(ignore, f)

SpecFail == Init /\ [][NextFail]_vars

\* A remote on which the challenge holds two files of one basename, as the upload of
\* two local paths with the same basename leaves it
SameNameRemote ==
    [EmptyRemote EXCEPT
        !.chals = <<Warmup, Installed, Intro>>,
        !.files = <<RemoteFile(13, 2, "chal.txt", "v0", TRUE),
                    RemoteFile(14, 2, "chal.txt", "v1", TRUE)>>]

InitSameName ==
    /\ doc \in Docs
    /\ cid = NoId
    /\ rem = SameNameRemote
    /\ disk \in {d \in Disks : Has(doc, "files") \/ <<"old.txt">> \notin DOMAIN d}
    /\ hist = <<>>

SpecSameName == InitSameName /\ [][Next]_vars

\* Between two operations of the object, another client of the remote renames the
\* challenge that the object last worked on
Rename ==
    /\ Len(hist) = 1
    /\ cid # NoId /\ RemoteHas(rem, cid)
    /\ Has(doc, "name") /\ RemoteChallenge(rem, cid)["name"] = doc["name"]
    /\ rem' = RemotePatch(rem, cid, [name |-> "Renamed"])
    /\ UNCHANGED <<doc, cid, disk, hist>>

NextRenamed == Next \/ Rename

SpecRenamed == Init /\ [][NextRenamed]_vars

(***************************************************************************)
(* Properties.  hist[i].pre is the state call i started in; After(i) is    *)
(* the state it left.                                                      *)
(***************************************************************************)
After(i) ==
    IF i = Len(hist) THEN [doc |-> doc, cid |-> cid, rem |-> rem, disk |-> disk]
    ELSE hist[i + 1].pre

\* Call i of hist is a call of op that ran to its end
Ran(i, op) == hist[i].op = op /\ hist[i].ok

\* The references of a requirements value, list or dict
References(req) == IF IsDict(req) THEN Get(req, "prerequisites", <<>>) ELSE req.list

\* The id a reference stands for in listing l (NoId: none)
RefId(x, l) ==
    IF Has(x, "name") THEN FirstByName(l, x.name)
    ELSE IF Has(x, "id") /\ \E i \in 1..Len(l) : l[i].id = x.id THEN x.id
    ELSE NoId

\* A document that provides every field, whose texts are in normal form, whose name
\* is not taken on remote r, and whose references each stand for another challenge
\* of r, no two for the same one
ValidDocument(d, r) ==
    /\ {"name", "category", "description", "attribution", "value", "flags"} \subseteq DOMAIN d
    /\ FirstByName(r.chals, d["name"]) = NoId
    /\ NormText(d["description"]) = d["description"]
    /\ NormText(d["attribution"]) = d["attribution"]
    /\ Has(d, "requirements") =>
          LET refs == References(d["requirements"])
          IN  /\ \A i \in 1..Len(refs) : RefId(refs[i], r.chals) # NoId
              /\ \A i, j \in 1..Len(refs) :
                    i # j => RefId(refs[i], r.chals) # RefId(refs[j], r.chals)
    /\ Has(d, "next") => Has(d["next"], "name") /\ RefId(d["next"], r.chals) # NoId

\* C1 (as claimed): for every valid document, a successful create() with an empty
\* ignore-set followed immediately by verify() with an empty ignore-set returns true.
C1_RoundTrip ==
    \A i \in 2..Len(hist) :
        ( /\ Ran(i - 1, "create") /\ hist[i - 1].ignore = {}
          /\ ValidDocument(hist[i - 1].pre.doc, hist[i - 1].pre.rem)
          /\ hist[i].op = "verify" /\ hist[i].ignore = {} )
        => hist[i].ok /\ hist[i].ret

\* The entries of sub-resource res of challenge c without their remote-generated ids
Contents(r, res, c) ==
    LET x == RemoteSub(r, res, c)
    IN  [i \in 1..Len(x) |-> [k \in (DOMAIN x[i]) \ {"id"} |-> x[i][k]]]

Groups == {"flags", "tags", "topics", "hints"}

\* Calls i - 1 and i of hist are two successful sync() with the same ignore-set
TwoSyncs(i) == Ran(i - 1, "sync") /\ Ran(i, "sync") /\ hist[i].ignore = hist[i - 1].ignore

\* C2: of two successful sync() in succession with the same document and ignore-set,
\* the second leaves the flags, tags, topics and hints of the remote challenge with
\* the contents the first left (the ids aside).
C2_SyncIdempotent ==
    \A i \in 2..Len(hist) :
        TwoSyncs(i) =>
            \A res \in Groups :
                Contents(After(i).rem, res, After(i).cid)
                    = Contents(hist[i].pre.rem, res, After(i).cid)

\* Two sync() in succession that ignore nothing, the first of which changed the remote
\* tags and flags, the second of which deleted and recreated them under new ids
C2_Witness ==
    \E i \in 2..Len(hist) :
        /\ TwoSyncs(i) /\ hist[i].ignore = {}
        /\ NonEmpty(hist[i].pre.doc, "flags") /\ NonEmpty(hist[i].pre.doc, "tags")
        /\ Contents(hist[i - 1].pre.rem, "tags", After(i).cid)
              # Contents(hist[i].pre.rem, "tags", After(i).cid)
        /\ IdsOf(RemoteSub(After(i).rem, "flags", After(i).cid))
              # IdsOf(RemoteSub(hist[i].pre.rem, "flags", After(i).cid))

\* Call i of hist is a verify() with an empty ignore-set that follows a successful
\* mirror() with an empty ignore-set
MirrorThenVerify(i) ==
    /\ Ran(i - 1, "mirror") /\ hist[i - 1].ignore = {}
    /\ hist[i].op = "verify" /\ hist[i].ignore = {}

\* C3: a successful mirror() followed immediately by verify(), both with an empty
\* ignore-set, makes verify return true.
C3_MirrorVerify ==
    \A i \in 2..Len(hist) : MirrorThenVerify(i) => hist[i].ok /\ hist[i].ret

\* A mirror() that rewrote the document and downloaded files, then a verify() that
\* returned true
C3_Witness ==
    \E i \in 2..Len(hist) :
        /\ MirrorThenVerify(i) /\ hist[i].ok /\ hist[i].ret
        /\ hist[i - 1].pre.doc # hist[i].pre.doc
        /\ NonEmpty(hist[i].pre.doc, "files") /\ NonEmpty(hist[i].pre.doc, "hints")
        /\ hist[i - 1].pre.disk # hist[i].pre.disk

\* The document's state is visible, or absent and so visible by default
VisibleDoc(d) == Get(d, "state", "visible") = "visible"

\* Call i of hist ended with the PATCH that sets the challenge visible, and left the
\* remote challenge visible
EndsVisible(i) ==
    /\ hist[i].log # <<>>
    /\ Last(hist[i].log) = Call("PATCH", "challenges", After(i).cid, [state |-> "visible"], TRUE)
    /\ RemoteHas(After(i).rem, After(i).cid)
    /\ RemoteChallenge(After(i).rem, After(i).cid)["state"] = "visible"

\* The remote challenge of the document was visible when call i started
VisibleBefore(i) ==
    /\ RemoteHas(hist[i].pre.rem, After(i).cid)
    /\ Get(RemoteChallenge(hist[i].pre.rem, After(i).cid), "state", NoneStr) = "visible"

\* C4 (as claimed): for a document whose state is visible or absent, every successful
\* create() and every successful sync() ends with the call that sets the remote state
\* to visible, and the remote challenge is visible when the operation returns.
C4_VisibilityBracket ==
    \A i \in 1..Len(hist) :
        (Ran(i, "create") \/ Ran(i, "sync")) /\ VisibleDoc(hist[i].pre.doc) => EndsVisible(i)

\* C4 (amended): for a document whose state is visible or absent, every successful
\* create(), and every successful sync() that does not ignore state or that found the
\* remote challenge visible, ends with the call that sets the remote state to visible,
\* and the remote challenge is visible when the operation returns.
C4_VisibilityBracketUnlessIgnored ==
    \A i \in 1..Len(hist) :
        /\ VisibleDoc(hist[i].pre.doc)
        /\ \/ Ran(i, "create")
           \/ Ran(i, "sync") /\ ("state" \notin hist[i].ignore \/ VisibleBefore(i))
        => EndsVisible(i)

\* A sync() of a document without state that does not ignore state, on a remote
\* challenge that was hidden, and a create() of a document without state: both end
\* with the remote challenge visible, after a payload that sent it hidden
C4_Witness ==
    \E i, j \in 1..Len(hist) :
        /\ Ran(i, "sync") /\ ~Has(hist[i].pre.doc, "state") /\ "state" \notin hist[i].ignore
        /\ ~VisibleBefore(i) /\ EndsVisible(i)
        /\ \E k \in 1..Len(hist[i].log) :
              Has(hist[i].log[k].body, "state") /\ hist[i].log[k].body["state"] = "hidden"
        /\ Ran(j, "create") /\ ~Has(hist[j].pre.doc, "state") /\ EndsVisible(j)

\* The DELETE calls of log for remote file id, and the POST calls that upload name n
DeletesOf(log, id) ==
    {j \in 1..Len(log) : log[j].m = "DELETE" /\ log[j].r = "files" /\ log[j].id = id}

UploadsOf(log, n) ==
    {j \in 1..Len(log) : log[j].m = "POST" /\ log[j].r = "files" /\ n \in Range(log[j].body.files)}

\* Call i of hist is a successful sync() that handles files
SyncsFiles(i) == Ran(i, "sync") /\ "files" \notin hist[i].ignore

\* The local files of call i whose basename the remote challenge has too, each with
\* the remote file of that name
Pairs(i) ==
    LET lf == LocalFiles(Get(hist[i].pre.doc, "files", <<>>))
    IN  {<<n, f>> \in Range(lf.names) \X Range(RemoteSub(hist[i].pre.rem, "files", After(i).cid)) :
            f.name = n}

\* The remote keeps a checksum of f and it is the checksum of the local file named n
SameChecksum(i, n, f) ==
    LET lf == LocalFiles(Get(hist[i].pre.doc, "files", <<>>))
    IN  f.sha1sum # NoSha /\ f.sha1sum = Sha1(hist[i].pre.disk[lf.at[n]])

\* Sync call i deleted remote file f once and uploaded n once, right after
Reuploaded(i, n, f) ==
    \E j \in 1..Len(hist[i].log) :
        /\ DeletesOf(hist[i].log, f.id) = {j}
        /\ UploadsOf(hist[i].log, n) = {j + 1}

\* C5: in sync(), a local file whose basename the remote challenge has and whose
\* checksum equals the remote one causes no file delete and no upload; one whose
\* checksum differs, or whose remote file has no checksum, causes exactly one delete
\* followed by exactly one upload.
C5_FileChangeDetection ==
    \A i \in 1..Len(hist) :
        SyncsFiles(i) =>
            \A p \in Pairs(i) :
                IF SameChecksum(i, p[1], p[2])
                THEN DeletesOf(hist[i].log, p[2].id) = {} /\ UploadsOf(hist[i].log, p[1]) = {}
                ELSE Reuploaded(i, p[1], p[2])

\* A sync() that re-uploaded a file whose remote checksum differed, then a sync() that
\* found the checksums equal and left the file alone
C5_Witness ==
    \E i, j \in 1..Len(hist) :
        /\ SyncsFiles(i) /\ SyncsFiles(j)
        /\ \E p \in Pairs(i) :
              p[2].sha1sum # NoSha /\ ~SameChecksum(i, p[1], p[2]) /\ Reuploaded(i, p[1], p[2])
        /\ \E p \in Pairs(j) :
              SameChecksum(j, p[1], p[2]) /\ UploadsOf(hist[j].log, p[1]) = {}

\* The calls of log that PATCH the prerequisites of a challenge
RequirementPatches(log) ==
    {j \in 1..Len(log) : log[j].m = "PATCH" /\ log[j].r = "challenges"
                           /\ Has(log[j].body, "requirements")}

\* The document of call i lists, by name or by id, the challenge the call works on
SelfListed(i) ==
    /\ hist[i].op \in {"create", "sync"} /\ "requirements" \notin hist[i].ignore
    /\ HasRequirements(hist[i].pre.doc)
    /\ After(i).cid \in Range(ResolveRequired(References(hist[i].pre.doc["requirements"]),
                                               After(i).rem.chals))

\* C6 (as claimed): the prerequisites sent in the requirements PATCH never contain the
\* id of the challenge itself, however often the document lists it, and a
\* self-reference is answered by a warning.
C6_SelfReferenceGuard ==
    \A i \in 1..Len(hist) :
        /\ \A j \in RequirementPatches(hist[i].log) :
              hist[i].log[j].id \notin Range(hist[i].log[j].body["requirements"].prerequisites)
        /\ SelfListed(i) /\ RequirementPatches(hist[i].log) # {}
              => "cannot require itself" \in Range(hist[i].warn)

\* C7 (as claimed): the prerequisites sent in the requirements PATCH are strictly
\* ascending, so no id occurs twice.
C7_SortedAndDeduplicated ==
    \A i \in 1..Len(hist) :
        \A j \in RequirementPatches(hist[i].log) :
            LET ps == hist[i].log[j].body["requirements"].prerequisites
            IN  \A a, b \in 1..Len(ps) : a < b => ps[a] < ps[b]

\* Call i of hist is a verify() that ran to its end and compared the key
Compared(i, key) == Ran(i, "verify") /\ key \notin hist[i].ignore

\* What verify or mirror call i normalized the remote challenge to
Normalized(i) ==
    _normalize_challenge(hist[i].pre.rem, After(i).cid,
                         RemoteChallenge(hist[i].pre.rem, After(i).cid))

\* The references of refs as a set, each id that listing l knows replaced by its name
NameSet(refs, l) ==
    {IF Has(x, "id") /\ (\E k \in 1..Len(l) : l[k].id = x.id)
     THEN [name |-> l[CHOOSE k \in 1..Len(l) : l[k].id = x.id].name] ELSE x : x \in Range(refs)}

\* Equivalence of requirements as claimed: the same set of references, the same flag
SameRequirements(local, normalized, l) ==
    /\ NameSet(References(local), l) = NameSet(normalized["prerequisites"], l)
    /\ (IF IsDict(local) THEN Get(local, "anonymize", FALSE) ELSE FALSE) = normalized["anonymize"]

\* C8 (as claimed): verify() fails the requirements key only when the local and the
\* remote references differ as sets of names or the anonymize flags differ, and
\* returns true only when they agree.
C8_RequirementEquivalence ==
    \A i \in 1..Len(hist) :
        Compared(i, "requirements") /\ Has(hist[i].pre.doc, "requirements") =>
            LET same == SameRequirements(hist[i].pre.doc["requirements"],
                                         Normalized(i)["requirements"], hist[i].pre.rem.chals)
            IN  /\ "requirements comparison failed." \in Range(hist[i].warn) => ~same
                /\ hist[i].ret => same

\* The default the elision rule gives key, as claimed: empty for every list
ClaimedDefault(key, value) ==
    \/ key = "attempts" /\ value = 0
    \/ key = "state" /\ value = "visible"
    \/ key = "type" /\ value = "standard"
    \/ key = "connection_info" /\ value = NoneStr
    \/ key \in {"flags", "tags", "topics", "hints", "files"} /\ value = <<>>
    \/ key = "requirements" /\ value = [prerequisites |-> <<>>, anonymize |-> FALSE]
    \/ key = "next" /\ value = RefNone

\* C9 (as claimed): verify() does not fail a key that the document omits and whose
\* remote value is the default of the key, and it returns false when the document
\* omits a key whose remote value is not the default.
C9_DefaultElision ==
    \A i \in 1..Len(hist) :
        Ran(i, "verify") =>
            \A key \in DOMAIN Normalized(i) :
                Compared(i, key) /\ ~Has(hist[i].pre.doc, key) =>
                    IF ClaimedDefault(key, Normalized(i)[key])
                    THEN (key \o " is not in challenge.") \notin Range(hist[i].warn)
                    ELSE ~hist[i].ret

\* C10: verify() issues GET calls only, and the remote is after the call what it was
\* before: the challenges, their flags, tags, topics, hints and files.
C10_VerifyReadOnly ==
    \A i \in 1..Len(hist) :
        hist[i].op = "verify" =>
            /\ After(i).rem = hist[i].pre.rem
            /\ \A j \in 1..Len(hist[i].log) : hist[i].log[j].m = "GET"

\* A verify() that found a local file different from the remote one and returned false
C10_Witness ==
    \E j \in 1..Len(hist) :
        /\ Ran(j, "verify") /\ ~hist[j].ret /\ "files" \notin hist[j].ignore
        /\ \E p \in Pairs(j) : hist[j].pre.disk[LocalFiles(hist[j].pre.doc["files"]).at[p[1]]] # p[2].content
        /\ \E k \in 1..Len(hist[j].log) : hist[j].log[k].r = "files"

\* C11 (as claimed): a verify() that returns leaves the document with the keys and
\* the values it had, and the challenge directory as it was.
C11_VerifyKeepsDocument ==
    \A i \in 1..Len(hist) :
        Ran(i, "verify") =>
            After(i).doc = hist[i].pre.doc /\ After(i).disk = hist[i].pre.disk

\* The local file named n of call i is the remote file f: by checksum when the remote
\* keeps one, by content otherwise
FileMatches(i, n, f) ==
    LET lf == LocalFiles(Get(hist[i].pre.doc, "files", <<>>))
    IN  /\ lf.at[n] \in DOMAIN hist[i].pre.disk
        /\ IF f.sha1sum # NoSha THEN f.sha1sum = Sha1(hist[i].pre.disk[lf.at[n]])
           ELSE f.content = hist[i].pre.disk[lf.at[n]]

\* The basenames of the files of the remote challenge of call i
RemoteNames(i) ==
    {f.name : f \in Range(RemoteSub(hist[i].pre.rem, "files", After(i).cid))}

\* C12 (as claimed): a verify() that does not ignore files returns true only if the
\* local and the remote basenames are the same set and every local file matches the
\* remote file of its name.
C12_AllFilesVerified ==
    \A i \in 1..Len(hist) :
        Compared(i, "files") /\ hist[i].ret =>
            /\ Range(LocalFiles(Get(hist[i].pre.doc, "files", <<>>)).names) = RemoteNames(i)
            /\ \A p \in Pairs(i) : FileMatches(i, p[1], p[2])

\* The step of create() and sync() that call c belongs to: 0 the challenge payload,
\* 1 flags, 2 topics, 3 tags, 4 files, 5 hints, 6 requirements, 7 the next link,
\* 8 the visibility call; -1 for the reads of the challenge and of the listing
Step(c) ==
    IF c.r = "flags" THEN 1
    ELSE IF c.r = "topics" THEN 2
    ELSE IF c.r = "tags" THEN 3
    ELSE IF c.r = "files" THEN 4
    ELSE IF c.r = "hints" THEN 5
    ELSE IF c.r # "challenges" \/ c.m = "GET" THEN -1
    ELSE IF Has(c.body, "requirements") THEN 6
    ELSE IF Has(c.body, "next_id") THEN 7
    ELSE IF c.body = [state |-> "visible"] THEN 8
    ELSE 0

\* The group of the ignore-set that a step works on
StepGroup(n) ==
    CASE n = 1 -> "flags" [] n = 2 -> "topics" [] n = 3 -> "tags" [] n = 4 -> "files"
      [] n = 5 -> "hints" [] n = 6 -> "requirements" [] n = 7 -> "next"

\* The calls of log that belong to a step
Stepped(log) == {j \in 1..Len(log) : Step(log[j]) >= 0}

\* C13: in every create() and sync(), the calls come in the order payload, flags,
\* topics, tags, files, hints, requirements, next link, visibility (each call that
\* belongs to a step is of the step of the call before it or of a later one); the
\* payload call is the first and the visibility call the last; an ignored group has
\* no call; and in sync() no delete of flags, topics, tags or hints comes after a
\* create of the same group.
C13_GroupOrder ==
    \A i \in 1..Len(hist) :
        hist[i].op \in {"create", "sync"} =>
            LET log == SelectSeq(hist[i].log, LAMBDA c : Step(c) >= 0)
                creates == {j \in 1..Len(log) : log[j].m = "POST" /\ Step(log[j]) \in {1, 2, 3, 5}}
                deletes == {k \in 1..Len(log) : log[k].m = "DELETE"}
            IN  /\ \A j \in 1..(Len(log) - 1) :
                      /\ Step(log[j]) <= Step(log[j + 1])
                      /\ Step(log[j]) # 8 /\ Step(log[j + 1]) # 0
                /\ \A j \in 1..Len(log) :
                      Step(log[j]) \in 1..7 => StepGroup(Step(log[j])) \notin hist[i].ignore
                /\ hist[i].op = "sync" =>
                      \A j \in creates, k \in deletes : j < k => Step(log[j]) # Step(log[k])

\* A sync() that deleted and created flags, topics, tags and hints, handled files and
\* set the requirements and the next link, and a create() that ended with the
\* visibility call
C13_Witness ==
    \E i, k \in 1..Len(hist) :
        /\ Ran(i, "sync")
        /\ \A n \in 0..7 : \E j \in Stepped(hist[i].log) : Step(hist[i].log[j]) = n
        /\ \A n \in {1, 2, 3, 5} :
              \E j, l \in Stepped(hist[i].log) :
                  /\ Step(hist[i].log[j]) = n /\ hist[i].log[j].m = "DELETE"
                  /\ Step(hist[i].log[l]) = n /\ hist[i].log[l].m = "POST"
        /\ Ran(k, "create")
        /\ \E j \in Stepped(hist[k].log) : Step(hist[k].log[j]) = 8
        /\ \E j \in Stepped(hist[k].log) : Step(hist[k].log[j]) = 6

\* The remote after call c of an operation that started with document d and disk dk
Applied(r, c, d, dk) ==
    IF ~c.ok \/ c.m = "GET" THEN r
    ELSE IF c.r = "challenges"
    THEN IF c.m = "POST" THEN RemoteCreate(r, c.body) ELSE RemotePatch(r, c.id, c.body)
    ELSE IF c.m = "DELETE" THEN RemoteDelete(r, c.r, c.id)
    ELSE IF c.r = "files"
    THEN LET lf == LocalFiles(Get(d, "files", <<>>))
         IN  RemoteAddFiles(r, c.body.challenge_id,
                            [k \in 1..Len(c.body.files) |-> lf.at[c.body.files[k]]], dk)
    ELSE RemoteAdd(r, c.r, Stored(c.r, c.body))

RECURSIVE Replayed(_, _, _, _)
\* The remote after the calls of log, one after the other
Replayed(r, log, d, dk) ==
    IF log = <<>> THEN r ELSE Replayed(Applied(r, Head(log), d, dk), Tail(log), d, dk)

\* The mutating calls of log that the remote refused
Refused(log) == {j \in 1..Len(log) : ~log[j].ok /\ log[j].m # "GET"}

\* C14: in create() and sync(), a mutating call that the remote refuses is the last
\* call of the operation, the operation ends with an error, and the remote is left as
\* the calls before the refused one made it.
C14_FailFast ==
    \A i \in 1..Len(hist) :
        hist[i].op \in {"create", "sync"} =>
            \A j \in Refused(hist[i].log) :
                /\ j = Len(hist[i].log)
                /\ ~hist[i].ok
                /\ After(i).rem = Replayed(hist[i].pre.rem, hist[i].log,
                                           hist[i].pre.doc, hist[i].pre.disk)

\* A sync() whose create of a flag was refused after it had deleted the flags of the
\* challenge: the deleted flags stay deleted
C14_Witness ==
    \E i \in 1..Len(hist) :
        /\ hist[i].op = "sync" /\ ~hist[i].ok /\ hist[i].err = "HTTPError"
        /\ Last(hist[i].log).m = "POST" /\ Last(hist[i].log).r = "flags"
        /\ ~Last(hist[i].log).ok
        /\ \E j \in 1..Len(hist[i].log) : hist[i].log[j].m = "DELETE" /\ hist[i].log[j].r = "flags"
        /\ RemoteSub(After(i).rem, "flags", After(i).cid) = <<>>
        /\ RemoteSub(hist[i].pre.rem, "flags", After(i).cid) # <<>>

\* The document of call i fails the checks that create() and sync() make before their
\* first mutating call: no name, no value for a type that is not dynamic (create), a
\* listed file that is not on disk while files are not ignored, or no remote challenge
\* of the document's name (sync)
Invalid(i) ==
    LET d == hist[i].pre.doc
        files == Get(d, "files", <<>>)
    IN  \/ ~HasName(d)
        \/ hist[i].op = "create" /\ ~Has(d, "value") /\ Get(d, "type", "standard") # "dynamic"
        \/ "files" \notin hist[i].ignore
              /\ \E k \in 1..Len(files) : files[k] \notin DOMAIN hist[i].pre.disk
        \/ hist[i].op = "sync" /\ HasName(d) /\ FirstByName(hist[i].pre.rem.chals, d["name"]) = NoId

\* The mutating calls of log
Mutating(log) == {j \in 1..Len(log) : log[j].m # "GET"}

RemoteField(key) == IF key = "attempts" THEN "max_attempts" ELSE key

\* C16: a successful sync() leaves every scalar field named in its ignore-set with
\* the remote value it had before the sync.
C16_IgnoredScalarsKept ==
    \A i \in 1..Len(hist) :
        Ran(i, "sync") =>
            \A key \in Scalars \cap hist[i].ignore :
                RemoteChallenge(After(i).rem, After(i).cid)[RemoteField(key)]
                    = RemoteChallenge(hist[i].pre.rem, After(i).cid)[RemoteField(key)]

\* A sync() that ignores the scalar fields, of a visible document whose attempts,
\* connection_info, category and description are not those of the remote challenge,
\* which was hidden and still is
C16_Witness ==
    \E i \in 1..Len(hist) :
        LET d == hist[i].pre.doc
            before == RemoteChallenge(hist[i].pre.rem, After(i).cid)
        IN  /\ Ran(i, "sync") /\ hist[i].ignore = Scalars
            /\ VisibleDoc(d) /\ before["state"] = "hidden"
            /\ RemoteChallenge(After(i).rem, After(i).cid)["state"] = "hidden"
            /\ Get(d, "attempts", 0) # before["max_attempts"]
            /\ Get(d, "category", "") # before["category"]
            /\ Get(d, "description", <<>>) # before["description"]

\* The references of the requirements of call i, when the call handles them
HandledRequirements(i) ==
    IF "requirements" \notin hist[i].ignore /\ HasRequirements(hist[i].pre.doc)
    THEN References(hist[i].pre.doc["requirements"]) ELSE <<>>

\* A requirement of call i names no remote challenge, or stands for the challenge itself
RequirementAnomaly(i) ==
    \/ Unresolved(HandledRequirements(i), After(i).rem.chals) # <<>>
    \/ After(i).cid \in Range(ResolveRequired(HandledRequirements(i), After(i).rem.chals))

\* The next link of call i is a name that no remote challenge has, or the name of the
\* challenge itself
NextAnomaly(i) ==
    /\ "next" \notin hist[i].ignore /\ Has(hist[i].pre.doc, "next")
    /\ Has(hist[i].pre.doc["next"], "name")
    /\ FirstByName(After(i).rem.chals, hist[i].pre.doc["next"].name) \in {NoId, After(i).cid}

\* Call i is a create() or sync() of a document that passes validation and whose next
\* link, if any, is a name
NamedReferences(i) ==
    /\ hist[i].op \in {"create", "sync"} /\ ~Invalid(i)
    /\ ~(hist[i].op = "create" /\ NoValue(hist[i].pre.doc))
    /\ Has(hist[i].pre.doc, "next") => Has(hist[i].pre.doc["next"], "name")

\* C17 (as claimed): a create() or sync() whose requirements or next link name no
\* remote challenge, or the challenge itself, runs to its end; the prerequisites it
\* sends are the ids of the other references, and such a next link is sent as null.
C17_AnomaliesDropped ==
    \A i \in 1..Len(hist) :
        NamedReferences(i) /\ (RequirementAnomaly(i) \/ NextAnomaly(i)) =>
            /\ hist[i].ok
            /\ RequirementAnomaly(i) =>
                  \A j \in RequirementPatches(hist[i].log) :
                      Range(hist[i].log[j].body["requirements"].prerequisites)
                          = Range(ResolveRequired(HandledRequirements(i), After(i).rem.chals))
                                \ {After(i).cid}
            /\ NextAnomaly(i) =>
                  \A j \in 1..Len(hist[i].log) :
                      hist[i].log[j].m = "PATCH" /\ Has(hist[i].log[j].body, "next_id")
                          => hist[i].log[j].body["next_id"] = NoId

\* The calls of log that send a next link
NextPatches(log) ==
    {j \in 1..Len(log) : log[j].m = "PATCH" /\ Has(log[j].body, "next_id")}

\* Call i is a create() or sync() of a document that passes validation and whose next
\* link is a positive integer other than the challenge's own id
IntegerNext(i) ==
    /\ hist[i].op \in {"create", "sync"} /\ ~Invalid(i)
    /\ ~(hist[i].op = "create" /\ NoValue(hist[i].pre.doc))
    /\ "next" \notin hist[i].ignore /\ Has(hist[i].pre.doc, "next")
    /\ Has(hist[i].pre.doc["next"], "id")
    /\ hist[i].pre.doc["next"].id > 0
    /\ hist[i].pre.doc["next"].id # After(i).cid

\* C18 (as claimed): a create() or sync() of a document whose next link is a positive
\* integer n other than the challenge's own id raises no error and sends exactly one
\* PATCH with a next link, whose next_id is n.
C18_IntegerNextVerbatim ==
    \A i \in 1..Len(hist) :
        IntegerNext(i) =>
            /\ hist[i].ok
            /\ Cardinality(NextPatches(hist[i].log)) = 1
            /\ \A j \in NextPatches(hist[i].log) :
                  hist[i].log[j].body["next_id"] = hist[i].pre.doc["next"].id

\* C19: after a successful mirror() every key of the ignore-set is in the document
\* exactly when it was before, with the value it had, and every other key of the
\* normalized remote challenge has the normalized value.
C19_MirrorRespectsIgnore ==
    \A i \in 1..Len(hist) :
        Ran(i, "mirror") =>
            LET before == hist[i].pre.doc
                after  == After(i).doc
                challenge == Normalized(i)
            IN  /\ \A k \in hist[i].ignore :
                      /\ Has(after, k) <=> Has(before, k)
                      /\ Has(before, k) => after[k] = before[k]
                /\ \A k \in (DOMAIN challenge) \ hist[i].ignore :
                      /\ Has(after, k)
                      /\ after[k] = challenge[k]

\* A mirror() left an ignored key at a local value that differs from the remote one,
\* left another ignored key out of the document, and changed a key that is not ignored
C19_Witness ==
    \E i \in 1..Len(hist) :
        /\ Ran(i, "mirror")
        /\ \E k \in hist[i].ignore :
              /\ Has(hist[i].pre.doc, k) /\ Has(Normalized(i), k)
              /\ After(i).doc[k] # Normalized(i)[k]
        /\ \E k \in hist[i].ignore :
              Has(Normalized(i), k) /\ ~Has(After(i).doc, k)
        /\ \E k \in (DOMAIN Normalized(i)) \ hist[i].ignore :
              ~Has(hist[i].pre.doc, k) \/ hist[i].pre.doc[k] # After(i).doc[k]

\* The file list the document of call i declares
Declared(i) == Get(hist[i].pre.doc, "files", <<>>)

\* C20 (as claimed): a successful mirror() that handles files downloads every remote
\* file whose basename the document already lists to the listed path and keeps that
\* path in the document; a path under the files directory is added only for a remote
\* file that the document did not list.
C20_MirrorKeepsPaths ==
    \A i \in 1..Len(hist) :
        Ran(i, "mirror") /\ "files" \notin hist[i].ignore =>
            LET urls == RemoteChallenge(hist[i].pre.rem, After(i).cid)["files"]
            IN  \A k \in 1..Len(urls) :
                    /\ \A path \in Range(Declared(i)) :
                          Basename(path) = UrlName(urls[k]) =>
                              /\ path \in Range(After(i).doc["files"])
                              /\ path \in DOMAIN After(i).disk
                              /\ After(i).disk[path]
                                    = RemoteContent(hist[i].pre.rem, UrlLocation(urls[k]))
                    /\ <<FilesDirectoryName, UrlName(urls[k])>> \in Range(After(i).doc["files"])
                          => \/ <<FilesDirectoryName, UrlName(urls[k])>> \in Range(Declared(i))
                             \/ \A path \in Range(Declared(i)) :
                                    Basename(path) # UrlName(urls[k])

\* A reference that is a name, or no reference at all
NamedOrNone(x) == x = RefNone \/ Has(x, "name")

\* C21: after a successful mirror() that ignores neither requirements nor next, every
\* prerequisite of the document is a challenge name and its next link is a challenge
\* name or null: no numeric id is in the document.
C21_MirrorWritesNames ==
    \A i \in 1..Len(hist) :
        Ran(i, "mirror") /\ "requirements" \notin hist[i].ignore /\ "next" \notin hist[i].ignore =>
            LET after == After(i).doc
            IN  /\ Has(after, "requirements") /\ IsDict(after["requirements"])
                /\ \A x \in Range(after["requirements"].prerequisites) : Has(x, "name")
                /\ Has(after, "next") /\ NamedOrNone(after["next"])

\* A mirror() of a document that gave a requirement or its next link as an id
\* wrote the names of the remote prerequisites and of the remote next challenge
C21_Witness ==
    \E i \in 1..Len(hist) :
        /\ Ran(i, "mirror") /\ hist[i].ignore = {}
        /\ \/ /\ Has(hist[i].pre.doc, "requirements")
              /\ \E x \in Range(References(hist[i].pre.doc["requirements"])) : Has(x, "id")
           \/ /\ Has(hist[i].pre.doc, "next") /\ Has(hist[i].pre.doc["next"], "id")
        /\ After(i).doc["requirements"].prerequisites # <<>>
        /\ \E k \in 1..Len(hist) :
              Ran(k, "mirror") /\ hist[k].ignore = {} /\ Has(After(k).doc["next"], "name")

\* The prerequisite ids the remote holds for the challenge of call i
RemotePrerequisites(i) ==
    Get(RemoteChallenge(hist[i].pre.rem, After(i).cid)["requirements"], "prerequisites", <<>>)

\* C22 (as claimed): the requirements that mirror() and verify() normalize the remote
\* challenge to have one entry for each prerequisite id of the remote challenge.
C22_UnresolvedIdsKept ==
    \A i \in 1..Len(hist) :
        Ran(i, "mirror") \/ Ran(i, "verify") =>
            Len(Normalized(i)["requirements"].prerequisites)
                = Cardinality(Range(RemotePrerequisites(i)))

\* Call i issued a file upload
Uploaded(i) == \E j \in 1..Len(hist[i].log) : hist[i].log[j].m = "POST" /\ hist[i].log[j].r = "files"

\* C23 (as claimed): when a create() or sync() that issued a file upload returns or
\* raises, no file handle it opened is still open.
C23_HandlesReleased ==
    \A i \in 1..Len(hist) :
        hist[i].op \in {"create", "sync"} /\ Uploaded(i) => hist[i].open = 0

\* The calls of log that set the state of a challenge to visible
VisibleCalls(log) ==
    {j \in 1..Len(log) : Has(log[j].body, "state") /\ log[j].body["state"] = "visible"}

\* C24: a create() or sync() that does not ignore state issues no call that sets the
\* state to visible when the document's state is hidden, and one that ran to its end
\* left the remote challenge hidden; when the document's state is visible or absent,
\* an operation that ran to its end issued that call, once, as its last call.
C24_RevealIffDesired ==
    \A i \in 1..Len(hist) :
        hist[i].op \in {"create", "sync"} /\ "state" \notin hist[i].ignore =>
            LET log == hist[i].log
            IN  IF VisibleDoc(hist[i].pre.doc)
                THEN hist[i].ok => VisibleCalls(log) = {Len(log)} /\ log # <<>>
                ELSE /\ VisibleCalls(log) = {}
                     /\ hist[i].ok =>
                           RemoteChallenge(After(i).rem, After(i).cid)["state"] = "hidden"

\* A sync() of a document with state hidden found the remote challenge visible and
\* left it hidden, after deleting and creating sub-resources
C24_Witness ==
    \E i \in 1..Len(hist) :
        /\ Ran(i, "sync") /\ "state" \notin hist[i].ignore /\ ~VisibleDoc(hist[i].pre.doc)
        /\ VisibleBefore(i)
        /\ RemoteChallenge(After(i).rem, After(i).cid)["state"] = "hidden"
        /\ \E j \in 1..Len(hist[i].log) : hist[i].log[j].m = "DELETE"

\* Challenge c is on remote r and hidden
Hidden(r, c) == RemoteHas(r, c) /\ RemoteChallenge(r, c)["state"] = "hidden"

RECURSIVE HiddenWhile(_, _, _, _, _, _)
\* Walking the calls of log from remote r: every mutating call other than the
\* challenge payload comes after the payload (started) and finds challenge c hidden
HiddenWhile(r, log, c, d, dk, started) ==
    IF log = <<>> THEN TRUE
    ELSE LET call == Head(log)
         IN  /\ call.m # "GET" /\ Step(call) # 0 => started /\ Hidden(r, c)
             /\ started /\ Step(call) = 0 => FALSE
             /\ HiddenWhile(Applied(r, call, d, dk), Tail(log), c, d, dk,
                            started \/ (Step(call) = 0 /\ call.ok))

\* C25: in every create() and sync(), every delete and create of a sub-resource,
\* file upload, requirements PATCH, next-link PATCH and the final visibility call
\* comes after the one challenge payload call and finds the remote challenge hidden.
C25_HiddenWhileMutating ==
    \A i \in 1..Len(hist) :
        hist[i].op \in {"create", "sync"} =>
            HiddenWhile(hist[i].pre.rem, hist[i].log, After(i).cid,
                        hist[i].pre.doc, hist[i].pre.disk, FALSE)

\* A sync() found the remote challenge visible, deleted and created sub-resources,
\* uploaded a file, set requirements and the next link, and ended with the
\* visibility call
C25_Witness ==
    \E i \in 1..Len(hist) :
        /\ Ran(i, "sync") /\ VisibleBefore(i) /\ EndsVisible(i)
        /\ \E j \in 1..Len(hist[i].log) : hist[i].log[j].m = "DELETE"
        /\ \E j \in 1..Len(hist[i].log) : hist[i].log[j].m = "POST" /\ hist[i].log[j].r = "files"
        /\ \E j \in 1..Len(hist[i].log) : Step(hist[i].log[j]) = 7

\* What the document says of each entry of a group: a flag's content and type (a
\* bare flag is static), a hint's content and cost (a bare hint costs nothing), the
\* value of a tag or topic
Declares(res, x) ==
    IF res = "flags"
    THEN IF Has(x, "s") THEN [content |-> x.s, type |-> "static"]
         ELSE [content |-> x.content, type |-> x.type]
    ELSE IF res = "hints"
    THEN IF Has(x, "s") THEN [content |-> x.s, cost |-> 0]
         ELSE [content |-> x.content, cost |-> Get(x, "cost", 0)]
    ELSE [value |-> x]

\* The same of an entry the remote holds
Holds(res, x) ==
    IF res = "flags" THEN [content |-> x.content, type |-> x.type]
    ELSE IF res = "hints" THEN [content |-> x.content, cost |-> x.cost]
    ELSE [value |-> x.value]

\* C26: after a successful sync(), each of the groups flags, topics, tags and hints
\* that is not ignored holds on the remote challenge one entry per entry of the
\* document's list, in the order of the list and with its content, and no entry when
\* the list is absent or empty.
C26_SubResourcesConverge ==
    \A i \in 1..Len(hist) :
        Ran(i, "sync") =>
            \A res \in Groups \ hist[i].ignore :
                LET local  == Get(hist[i].pre.doc, res, <<>>)
                    remote == RemoteSub(After(i).rem, res, After(i).cid)
                IN  /\ Len(remote) = Len(local)
                    /\ \A k \in 1..Len(local) : Holds(res, remote[k]) = Declares(res, local[k])

\* A sync() that ignores none of the four groups emptied a group the document does
\* not list and replaced the entries of a group the document lists
C26_Witness ==
    \E i \in 1..Len(hist) :
        /\ Ran(i, "sync") /\ Groups \cap hist[i].ignore = {}
        /\ \E res \in Groups :
              /\ ~Has(hist[i].pre.doc, res)
              /\ RemoteSub(hist[i].pre.rem, res, After(i).cid) # <<>>
              /\ RemoteSub(After(i).rem, res, After(i).cid) = <<>>
        /\ \E res \in Groups :
              /\ NonEmpty(hist[i].pre.doc, res)
              /\ RemoteSub(hist[i].pre.rem, res, After(i).cid) # <<>>
              /\ Contents(hist[i].pre.rem, res, After(i).cid)
                    # Contents(After(i).rem, res, After(i).cid)

\* The ids that the references of the requirements of document d stand for in listing
\* l, the challenge c itself aside
ResolvedLocal(d, l, c) ==
    IF Has(d, "requirements")
    THEN Range(ResolveRequired(References(d["requirements"]), l)) \ {c}
    ELSE {}

\* C27 (as claimed): a successful sync() that does not ignore requirements issues the
\* requirements PATCH, and afterwards the prerequisites of the remote challenge are
\* the resolved requirements of the document: none when the document has none.
C27_RequirementsConverge ==
    \A i \in 1..Len(hist) :
        Ran(i, "sync") /\ "requirements" \notin hist[i].ignore =>
            /\ RequirementPatches(hist[i].log) # {}
            /\ Range(Get(RemoteChallenge(After(i).rem, After(i).cid)["requirements"],
                         "prerequisites", <<>>))
                  = ResolvedLocal(hist[i].pre.doc, After(i).rem.chals, After(i).cid)

\* The basenames of the files of challenge c on remote r
RemoteBasenames(r, c) == {f.name : f \in Range(RemoteSub(r, "files", c))}

\* The basenames of the file list of document d
LocalBasenames(d) == {Basename(path) : path \in Range(Get(d, "files", <<>>))}

\* C28 (as claimed): after a successful sync() that does not ignore files, the remote
\* challenge has a file of a basename exactly when the document lists a file of that
\* basename.
C28_FileSetConverges ==
    \A i \in 1..Len(hist) :
        Ran(i, "sync") /\ "files" \notin hist[i].ignore =>
            RemoteBasenames(After(i).rem, After(i).cid) = LocalBasenames(hist[i].pre.doc)

\* The id that a full listing gives the name of the document when call i starts
ListedId(i) ==
    IF Has(hist[i].pre.doc, "name")
    THEN FirstByName(hist[i].pre.rem.chals, hist[i].pre.doc["name"]) ELSE NoId

\* C29 (as claimed): every sync(), mirror() and verify() of a document with a name
\* that gets to its lookup works on the id of the first listed challenge that has the document's name, or,
\* when no listed challenge has it, ends with remote-challenge-not-found right after
\* the listing, whatever id an earlier operation left in the object.
C29_FreshIdentity ==
    \A i \in 1..Len(hist) :
        /\ hist[i].op \in {"sync", "mirror", "verify"}
        /\ HasName(hist[i].pre.doc) /\ hist[i].log # <<>>
        =>  IF ListedId(i) # NoId
            THEN After(i).cid = ListedId(i)
            ELSE /\ ~hist[i].ok /\ hist[i].err = "RemoteChallengeNotFound"
                 /\ Len(hist[i].log) = 1

\* create call i ended with the error of a document that provides no value
MissingValue(i) ==
    ~hist[i].ok /\ hist[i].err = "InvalidChallengeDefinition" /\ hist[i].log = <<>>

\* C30 (as claimed): a create() of a document with a name ends with the missing-value
\* error exactly when the document has no value and its type is not dynamic; a
\* document with an integer value, 0 included, passes.
C30_ValuePreflight ==
    \A i \in 1..Len(hist) :
        hist[i].op = "create" /\ HasName(hist[i].pre.doc) =>
            (MissingValue(i) <=>
                /\ ~Has(hist[i].pre.doc, "value")
                /\ Get(hist[i].pre.doc, "type", "standard") # "dynamic")

\* The challenge payload call of call i was accepted by the remote
PayloadAccepted(i) ==
    \E j \in 1..Len(hist[i].log) : Step(hist[i].log[j]) = 0 /\ hist[i].log[j].ok

\* C31: a sync() that ends with an error after the remote accepted its challenge
\* payload leaves the remote challenge hidden, whatever its state was before and
\* whatever state the document asks for.
C31_AbortedSyncHidden ==
    \A i \in 1..Len(hist) :
        hist[i].op = "sync" /\ ~hist[i].ok /\ PayloadAccepted(i) =>
            Hidden(After(i).rem, After(i).cid)

\* A sync() of a document whose state is visible, on a remote challenge that was
\* visible, was refused a call after its payload and left the challenge hidden
C31_Witness ==
    \E i \in 1..Len(hist) :
        /\ hist[i].op = "sync" /\ ~hist[i].ok /\ hist[i].err = "HTTPError"
        /\ PayloadAccepted(i)
        /\ "state" \notin hist[i].ignore /\ VisibleDoc(hist[i].pre.doc) /\ VisibleBefore(i)
        /\ Hidden(After(i).rem, After(i).cid)

\* What remote r holds besides challenge c: the other challenges and their flags,
\* tags, topics, hints and files
Others(r, c) ==
    [chals  |-> SelectSeq(r.chals, LAMBDA ch : ch.id # c),
     flags  |-> SelectSeq(r.flags, LAMBDA x : x.challenge_id # c),
     tags   |-> SelectSeq(r.tags, LAMBDA x : x.challenge_id # c),
     topics |-> SelectSeq(r.topics, LAMBDA x : x.challenge_id # c),
     hints  |-> SelectSeq(r.hints, LAMBDA x : x.challenge_id # c),
     files  |-> SelectSeq(r.files, LAMBDA x : x.challenge_id # c)]

\* C32: every create() and sync(), whether it runs to its end or is aborted, sends
\* its PATCH calls to the challenge it works on and leaves every other challenge of
\* the remote, with its flags, tags, topics, hints and files, as it was.
C32_OthersUntouched ==
    \A i \in 1..Len(hist) :
        hist[i].op \in {"create", "sync"} =>
            /\ Others(After(i).rem, After(i).cid) = Others(hist[i].pre.rem, After(i).cid)
            /\ \A j \in 1..Len(hist[i].log) :
                  hist[i].log[j].m = "PATCH" => hist[i].log[j].id = After(i).cid

\* A sync() deleted flags, tags and a file of its challenge on a remote where another
\* challenge has a flag, a tag and a file of the same basename; and an operation was
\* aborted after its first delete
C32_Witness ==
    \E i \in 1..Len(hist) :
        /\ hist[i].op = "sync"
        /\ \E j \in 1..Len(hist[i].log) : hist[i].log[j].m = "DELETE" /\ hist[i].log[j].ok
        /\ \E res \in {"flags", "tags", "files"} :
              /\ Others(hist[i].pre.rem, After(i).cid)[res] # <<>>
              /\ Len(RemoteSub(After(i).rem, res, After(i).cid))
                    < Len(RemoteSub(hist[i].pre.rem, res, After(i).cid))
        /\ ~hist[i].ok

====
